---- MODULE Spec2Model ----
(***************************************************************************)
(* State-machine model of QueryCache and ChunkCache                        *)
(* (src/backup_20251026_181310/src/utils/query_cache.py).                  *)
(*                                                                         *)
(* Conventions                                                             *)
(*  - A Python Optional is a sequence of length <= 1: None is <<>> and a   *)
(*    present value x is <<x>>.                                            *)
(*  - An OrderedDict is a sequence of [key, value] records, oldest first.  *)
(*  - A str is a sequence of one-character strings.                        *)
(*  - A numpy vector is a sequence of integers; a cosine similarity is an  *)
(*    integer number of 1/SimScale units (the embeddings drawn all have    *)
(*    Euclidean norm 5, so the value is exact).                            *)
(*  - time.time() is the variable now, advanced by Tick.                   *)
(*  - A payload is whatever the caller passes to set. Where the identity   *)
(*    of payload objects matters (SpecPayload) it is the address of a dict *)
(*    of the heap, written [ref |-> n]; elsewhere it is an immutable dict  *)
(*    and the heap stays empty.                                            *)
(***************************************************************************)
EXTENDS Integers, Sequences, FiniteSets, TLC

VARIABLES
    max_size,               \* self.max_size
    similarity_threshold,   \* self.similarity_threshold, in 1/SimScale units
    ttl_seconds,            \* self.ttl_seconds (Optional)
    enable_semantic_cache,  \* self.enable_semantic_cache
    exact_cache,            \* self.exact_cache
    semantic_cache,         \* self.semantic_cache
    stats,                  \* self.stats
    now,                    \* the value time.time() returns
    ops,                    \* number of public calls made so far
    history,                \* the latest public calls, with their outcomes
    heap,                   \* the dict objects of the caller, by address
    chunk_cache,            \* the ChunkCache instance, None where there is none
    inflight,               \* the get a second worker is in the middle of
    setting                 \* the set a worker is in the middle of

vars == <<max_size, similarity_threshold, ttl_seconds, enable_semantic_cache,
          exact_cache, semantic_cache, stats, now, ops, history, heap,
          chunk_cache, inflight, setting>>

config == <<max_size, similarity_threshold, ttl_seconds, enable_semantic_cache>>

(***************************************************************************)
(* Bounds of the model                                                     *)
(***************************************************************************)
MaxSizeBound == 3
MaxTime == 2
MaxOps == 2
MaxTokens == 2

(***************************************************************************)
(* Python values                                                           *)
(***************************************************************************)
None == <<>>
Some(x) == <<x>>
IsNone(o) == o = <<>>
The(o) == o[1]

SimScale == 25

\* similarity_threshold: float = 0.92
DefaultThreshold == 23

(***************************************************************************)
(* Inputs drawn by the calls                                               *)
(***************************************************************************)
\* the (query, k) pairs of the calls
Requests == {<<<<" ", "A">>, 5>>, <<<<" ", "A">>, 3>>, <<<<"b">>, 5>>}
Embeddings == {<<3, 4>>, <<4, 3>>, <<5>>}
OptEmbeddings == {None} \cup {Some(e) : e \in Embeddings}
Thresholds == {0, SimScale}
Ttls == {None, Some(1)}

(***************************************************************************)
(* str: lower(), strip(), str(int)                                         *)
(***************************************************************************)
LowerChar(c) ==
    CASE c = "A" -> "a"
      [] c = "B" -> "b"
      [] c = "K" -> "k"
      [] OTHER -> c

Lower(s) == [i \in 1..Len(s) |-> LowerChar(s[i])]

Whitespace == {" ", "\t", "\n"}

RECURSIVE LStrip(_)
LStrip(s) ==
    IF s # <<>> /\ Head(s) \in Whitespace THEN LStrip(Tail(s)) ELSE s

RECURSIVE RStrip(_)
RStrip(s) ==
    IF s # <<>> /\ s[Len(s)] \in Whitespace
    THEN RStrip(SubSeq(s, 1, Len(s) - 1))
    ELSE s

Strip(s) == RStrip(LStrip(s))

DigitChar(d) ==
    CASE d = 0 -> "0" [] d = 1 -> "1" [] d = 2 -> "2" [] d = 3 -> "3"
      [] d = 4 -> "4" [] d = 5 -> "5" [] d = 6 -> "6" [] d = 7 -> "7"
      [] d = 8 -> "8" [] d = 9 -> "9"

RECURSIVE NatStr(_)
NatStr(n) ==
    IF n < 10 THEN <<DigitChar(n)>>
    ELSE NatStr(n \div 10) \o <<DigitChar(n % 10)>>

IntStr(n) == IF n < 0 THEN <<"-">> \o NatStr(0 - n) ELSE NatStr(n)

(***************************************************************************)
(* OrderedDict                                                             *)
(***************************************************************************)
Keys(d) == {d[i].key : i \in 1..Len(d)}

Contains(d, key) == key \in Keys(d)

IndexOf(d, key) == CHOOSE i \in 1..Len(d) : d[i].key = key

Lookup(d, key) == d[IndexOf(d, key)].value

Without(d, i) == SubSeq(d, 1, i - 1) \o SubSeq(d, i + 1, Len(d))

\* del d[key]
Del(d, key) == Without(d, IndexOf(d, key))

\* d[key] = value: an existing key keeps its position, a new key goes last
SetItem(d, key, value) ==
    IF Contains(d, key)
    THEN [d EXCEPT ![IndexOf(d, key)].value = value]
    ELSE Append(d, [key |-> key, value |-> value])

\* d.move_to_end(key); a missing key is a KeyError, which callers test first
\* Mutant: the entry keeps its place
MoveToEndKeepsPlace(d, key) == d

\* d.move_to_end(key)
MoveToEnd(d, key) ==
    LET i == IndexOf(d, key) IN Append(Without(d, i), d[i])

\* Mutant: d.popitem(last=True)
PopNewest(d) == SubSeq(d, 1, Len(d) - 1)

\* d.popitem(last=False)
PopFirst(d) == Tail(d)

(***************************************************************************)
(* QueryCache helpers                                                      *)
(***************************************************************************)
\* hashlib.sha256(...).hexdigest(): collision-free on the keys drawn
Sha256(s) == <<"sha256">> \o s

\* Mutant: k left out of the key
CacheKeyWithoutK(query, k) == Strip(Lower(query))

\* variant: the text and k are joined without a separator
CacheKeyNoSeparator(query, k) == Strip(Lower(query)) \o IntStr(k)

CacheKey(query, k) == Strip(Lower(query)) \o <<"|", "k", "=">> \o IntStr(k)

GenerateQueryHash(query, k) == Sha256(CacheKey(query, k))

\* Mutant: >= in place of >
IsExpiredAtTtl(timestamp) ==
    IF IsNone(ttl_seconds) THEN FALSE
    ELSE (now - timestamp) >= The(ttl_seconds)

IsExpired(timestamp) ==
    IF IsNone(ttl_seconds) THEN FALSE
    ELSE (now - timestamp) > The(ttl_seconds)

InitStats ==
    [exact_hits |-> 0, semantic_hits |-> 0, misses |-> 0,
     total_queries |-> 0, evictions |-> 0, ttl_expirations |-> 0]

Bump(s, field) == [s EXCEPT ![field] = @ + 1]

\* The part of the object the operations change
Cache(e, s, st) == [exact_cache |-> e, semantic_cache |-> s, stats |-> st]

\* variant: the removal is not counted
EvictOldestUncounted(c, which) ==
    IF which = "exact"
    THEN IF c.exact_cache # <<>>
         THEN Cache(PopFirst(c.exact_cache), c.semantic_cache, c.stats)
         ELSE c
    ELSE IF c.semantic_cache # <<>>
         THEN Cache(c.exact_cache, PopFirst(c.semantic_cache), c.stats)
         ELSE c

\* _evict_oldest applied to the exact store (which = "exact") or the semantic one
EvictOldest(c, which) ==
    IF which = "exact"
    THEN IF c.exact_cache # <<>>
         THEN Cache(PopFirst(c.exact_cache), c.semantic_cache,
                    Bump(c.stats, "evictions"))
         ELSE c
    ELSE IF c.semantic_cache # <<>>
         THEN Cache(c.exact_cache, PopFirst(c.semantic_cache),
                    Bump(c.stats, "evictions"))
         ELSE c

\* The while loop of _ensure_cache_size; total_entries is the local counter
RECURSIVE EnsureLoop(_, _)
EnsureLoop(c, total_entries) ==
    IF total_entries > max_size
    THEN EnsureLoop(
            IF Len(c.exact_cache) >= Len(c.semantic_cache)
            THEN EvictOldest(c, "exact")
            ELSE EvictOldest(c, "semantic"),
            total_entries - 1)
    ELSE c

\* Mutant: an if in place of the while (one eviction at most)
EnsureCacheSizeOnce(c) ==
    IF Len(c.exact_cache) + Len(c.semantic_cache) > max_size
    THEN IF Len(c.exact_cache) >= Len(c.semantic_cache)
         THEN EvictOldest(c, "exact")
         ELSE EvictOldest(c, "semantic")
    ELSE c

\* variant: stores of equal size lose a semantic entry first
RECURSIVE EnsureLoopTiesToSemantic(_, _)
EnsureLoopTiesToSemantic(c, total_entries) ==
    IF total_entries > max_size
    THEN EnsureLoopTiesToSemantic(
            IF Len(c.exact_cache) > Len(c.semantic_cache)
            THEN EvictOldest(c, "exact")
            ELSE EvictOldest(c, "semantic"),
            total_entries - 1)
    ELSE c

EnsureCacheSizeTiesToSemantic(c) ==
    EnsureLoopTiesToSemantic(c, Len(c.exact_cache) + Len(c.semantic_cache))

EnsureCacheSize(c) ==
    EnsureLoop(c, Len(c.exact_cache) + Len(c.semantic_cache))

(***************************************************************************)
(* sklearn.metrics.pairwise.cosine_similarity on two 1 x n rows            *)
(***************************************************************************)
RECURSIVE Dot(_, _)
Dot(a, b) ==
    IF a = <<>> THEN 0 ELSE Head(a) * Head(b) + Dot(Tail(a), Tail(b))

\* Euclidean norm; exact for the vectors drawn (perfect squares)
Norm(a) == LET n == Dot(a, a) IN CHOOSE r \in 0..n : r * r <= n /\ n < (r + 1) * (r + 1)

\* rows of different width: check_pairwise_arrays raises ValueError
Incompatible(a, b) == Len(a) # Len(b)

\* a zero row is left unnormalised, which gives similarity 0
CosineSimilarity(a, b) ==
    IF Norm(a) = 0 \/ Norm(b) = 0 THEN 0
    ELSE (Dot(a, b) * SimScale) \div (Norm(a) * Norm(b))

(***************************************************************************)
(* Outcomes of a call                                                      *)
(***************************************************************************)
Returned(v) == [status |-> "return", value |-> v]
Raised(e) == [status |-> "raise", error |-> e]

\* _create_cache_response: data.copy() plus the provenance fields
CreateCacheResponse(data, cache_type, similarity) ==
    LET tagged == ("_cache_hit" :> TRUE) @@ ("_cache_type" :> cache_type) @@ data
    IN IF IsNone(similarity) THEN tagged
       ELSE ("_cache_similarity" :> The(similarity)) @@ tagged

\* The address of the dict heap[n]
Address(n) == [ref |-> n]

\* Mutant: response = data, the stored dict itself is annotated and returned
CreateCacheResponseInPlace(h, data, cache_type, similarity) ==
    [heap |-> [h EXCEPT ![data.ref] = CreateCacheResponse(@, cache_type, similarity)],
     response |-> data]

\* _create_cache_response on the heap h, data being the address of the stored
\* dict: data.copy() makes a new dict, which is annotated and returned
CreateCacheResponseAt(h, data, cache_type, similarity) ==
    LET response == Address(Len(h) + 1)
        copied == Append(h, h[data.ref])
    IN [heap |-> [copied EXCEPT ![response.ref] =
                     CreateCacheResponse(@, cache_type, similarity)],
        response |-> response]

(***************************************************************************)
(* QueryCache.get                                                          *)
(***************************************************************************)
NoMatch == [best_match |-> None, best_similarity |-> 0, best_hash |-> None,
            raised |-> FALSE]

\* Mutant: an embedding of another dimension counts as similarity zero
ScanStepSilentZero(b, e, query_embedding) ==
    LET cached_embedding == e.value[1]
        cached_data == e.value[2]
        timestamp == e.value[3]
    IN IF b.raised THEN b
       ELSE IF IsExpired(timestamp) THEN b
       ELSE IF Incompatible(query_embedding, cached_embedding) THEN b
       ELSE LET similarity == CosineSimilarity(query_embedding, cached_embedding)
            IN IF similarity > b.best_similarity
               THEN [best_match |-> Some(cached_data),
                     best_similarity |-> similarity,
                     best_hash |-> Some(e.key),
                     raised |-> FALSE]
               ELSE b

\* variant: the scan keeps the first entry that reaches the threshold
ScanStepFirstEnough(b, e, query_embedding) ==
    LET cached_embedding == e.value[1]
        cached_data == e.value[2]
        timestamp == e.value[3]
    IN IF b.raised THEN b
       ELSE IF IsExpired(timestamp) THEN b
       ELSE IF Incompatible(query_embedding, cached_embedding)
            THEN [b EXCEPT !.raised = TRUE]
       ELSE LET similarity == CosineSimilarity(query_embedding, cached_embedding)
            IN IF /\ similarity > b.best_similarity
                  /\ ~(~IsNone(b.best_hash) /\ b.best_similarity >= similarity_threshold)
               THEN [best_match |-> Some(cached_data),
                     best_similarity |-> similarity,
                     best_hash |-> Some(e.key),
                     raised |-> FALSE]
               ELSE b

\* variant: an entry of equal similarity replaces the running best
ScanStepLatestOnTie(b, e, query_embedding) ==
    LET cached_embedding == e.value[1]
        cached_data == e.value[2]
        timestamp == e.value[3]
    IN IF b.raised THEN b
       ELSE IF IsExpired(timestamp) THEN b
       ELSE IF Incompatible(query_embedding, cached_embedding)
            THEN [b EXCEPT !.raised = TRUE]
       ELSE LET similarity == CosineSimilarity(query_embedding, cached_embedding)
            IN IF similarity >= b.best_similarity /\ similarity > 0
               THEN [best_match |-> Some(cached_data),
                     best_similarity |-> similarity,
                     best_hash |-> Some(e.key),
                     raised |-> FALSE]
               ELSE b

\* One iteration of the scan loop on the entry e, with the running best b
ScanStep(b, e, query_embedding) ==
    LET cached_embedding == e.value[1]
        cached_data == e.value[2]
        timestamp == e.value[3]
    IN IF b.raised THEN b
       ELSE IF IsExpired(timestamp) THEN b
       ELSE IF Incompatible(query_embedding, cached_embedding)
            THEN [b EXCEPT !.raised = TRUE]
       ELSE LET similarity == CosineSimilarity(query_embedding, cached_embedding)
            IN IF similarity > b.best_similarity
               THEN [best_match |-> Some(cached_data),
                     best_similarity |-> similarity,
                     best_hash |-> Some(e.key),
                     raised |-> FALSE]
               ELSE b

\* for ... in self.semantic_cache.items(), from position i on
RECURSIVE Scan(_, _, _, _)
Scan(d, i, b, query_embedding) ==
    IF i > Len(d) THEN b
    ELSE Scan(d, i + 1, ScanStep(b, d[i], query_embedding), query_embedding)

\* Mutant: an expired exact entry is passed over, neither deleted nor counted
ExactLookupKeepsExpired(c, query_hash) ==
    IF Contains(c.exact_cache, query_hash)
       /\ ~IsExpired(Lookup(c.exact_cache, query_hash).timestamp)
    THEN LET entry == Lookup(c.exact_cache, query_hash)
         IN [cache |-> Cache(MoveToEnd(c.exact_cache, query_hash),
                             c.semantic_cache,
                             Bump(c.stats, "exact_hits")),
             done |-> TRUE,
             result |-> Returned(Some(CreateCacheResponse(entry.data, "exact", None)))]
    ELSE [cache |-> c, done |-> FALSE]

\* The exact lookup: the cache after it, and the response when it returns
\* variant: an exact hit also promotes the semantic entry of the fingerprint
ExactLookupPromotesBoth(c, query_hash) ==
    IF Contains(c.exact_cache, query_hash)
    THEN LET entry == Lookup(c.exact_cache, query_hash)
         IN IF IsExpired(entry.timestamp)
            THEN [cache |-> Cache(Del(c.exact_cache, query_hash), c.semantic_cache,
                                  Bump(c.stats, "ttl_expirations")),
                  done |-> FALSE]
            ELSE [cache |-> Cache(MoveToEnd(c.exact_cache, query_hash),
                                  IF Contains(c.semantic_cache, query_hash)
                                  THEN MoveToEnd(c.semantic_cache, query_hash)
                                  ELSE c.semantic_cache,
                                  Bump(c.stats, "exact_hits")),
                  done |-> TRUE,
                  result |-> Returned(Some(CreateCacheResponse(entry.data, "exact", None)))]
    ELSE [cache |-> c, done |-> FALSE]

\* variant: an exact hit restamps the entry with the time of the hit
ExactLookupRestamps(c, query_hash) ==
    IF Contains(c.exact_cache, query_hash)
    THEN LET entry == Lookup(c.exact_cache, query_hash)
         IN IF IsExpired(entry.timestamp)
            THEN [cache |-> Cache(Del(c.exact_cache, query_hash), c.semantic_cache,
                                  Bump(c.stats, "ttl_expirations")),
                  done |-> FALSE]
            ELSE [cache |-> Cache(MoveToEnd(
                                      SetItem(c.exact_cache, query_hash,
                                              [entry EXCEPT !.timestamp = now]),
                                      query_hash),
                                  c.semantic_cache,
                                  Bump(c.stats, "exact_hits")),
                  done |-> TRUE,
                  result |-> Returned(Some(CreateCacheResponse(entry.data, "exact", None)))]
    ELSE [cache |-> c, done |-> FALSE]

ExactLookup(c, query_hash) ==
    IF Contains(c.exact_cache, query_hash)
    THEN LET entry == Lookup(c.exact_cache, query_hash)
         IN IF IsExpired(entry.timestamp)
            THEN [cache |-> Cache(Del(c.exact_cache, query_hash), c.semantic_cache,
                                  Bump(c.stats, "ttl_expirations")),
                  done |-> FALSE]
            ELSE [cache |-> Cache(MoveToEnd(c.exact_cache, query_hash),
                                  c.semantic_cache,
                                  Bump(c.stats, "exact_hits")),
                  done |-> TRUE,
                  result |-> Returned(Some(CreateCacheResponse(entry.data, "exact", None)))]
    ELSE [cache |-> c, done |-> FALSE]

\* Mutant: a scan that finds nothing similar enough returns without counting
\* the miss
SemanticLookupMissUncounted(c, query_embedding) ==
    LET miss == [cache |-> [c EXCEPT !.stats = Bump(@, "misses")],
                 result |-> Returned(None)]
    IN IF enable_semantic_cache /\ ~IsNone(query_embedding)
       THEN LET b == Scan(c.semantic_cache, 1, NoMatch, The(query_embedding))
            IN IF b.raised
               THEN [cache |-> c, result |-> Raised("ValueError")]
               ELSE IF b.best_similarity >= similarity_threshold
               THEN IF IsNone(b.best_hash)
                    THEN [cache |-> c, result |-> Raised("KeyError")]
                    ELSE [cache |-> Cache(c.exact_cache,
                                          MoveToEnd(c.semantic_cache, The(b.best_hash)),
                                          Bump(c.stats, "semantic_hits")),
                          result |-> Returned(Some(CreateCacheResponse(
                                        The(b.best_match), "semantic",
                                        Some(b.best_similarity))))]
               ELSE [cache |-> c, result |-> Returned(None)]
       ELSE miss

\* The semantic lookup and the final miss
SemanticLookup(c, query_embedding) ==
    LET miss == [cache |-> [c EXCEPT !.stats = Bump(@, "misses")],
                 result |-> Returned(None)]
    IN IF enable_semantic_cache /\ ~IsNone(query_embedding)
       THEN LET b == Scan(c.semantic_cache, 1, NoMatch, The(query_embedding))
            IN IF b.raised
               THEN [cache |-> c, result |-> Raised("ValueError")]
               ELSE IF b.best_similarity >= similarity_threshold
               THEN IF IsNone(b.best_hash)
                    THEN [cache |-> c, result |-> Raised("KeyError")]
                    ELSE [cache |-> Cache(c.exact_cache,
                                          MoveToEnd(c.semantic_cache, The(b.best_hash)),
                                          Bump(c.stats, "semantic_hits")),
                          result |-> Returned(Some(CreateCacheResponse(
                                        The(b.best_match), "semantic",
                                        Some(b.best_similarity))))]
               ELSE miss
       ELSE miss

\* Mutant: the call is counted after the exact lookup, so an exact hit
\* returns uncounted
GetOpCountsAfterExact(c, query, k, query_embedding) ==
    LET query_hash == GenerateQueryHash(query, k)
        x == ExactLookup(c, query_hash)
    IN IF x.done THEN [cache |-> x.cache, result |-> x.result]
       ELSE SemanticLookup([x.cache EXCEPT !.stats = Bump(@, "total_queries")],
                           query_embedding)

\* variant: the semantic lookup first drops the expired semantic entries and
\* counts them
GetOpDropsExpiredSemantic(c, query, k, query_embedding) ==
    LET counted == [c EXCEPT !.stats = Bump(@, "total_queries")]
        query_hash == GenerateQueryHash(query, k)
        x == ExactLookup(counted, query_hash)
        kept == SelectSeq(x.cache.semantic_cache,
                          LAMBDA e : ~IsExpired(e.value[3]))
        dropped == Len(x.cache.semantic_cache) - Len(kept)
    IN IF x.done THEN [cache |-> x.cache, result |-> x.result]
       ELSE SemanticLookup(
                Cache(x.cache.exact_cache, kept,
                      [x.cache.stats EXCEPT !.ttl_expirations = @ + dropped]),
                query_embedding)

\* variant: a get that passes an embedding goes to the semantic store
GetOpPrefersSemantic(c, query, k, query_embedding) ==
    LET counted == [c EXCEPT !.stats = Bump(@, "total_queries")]
        query_hash == GenerateQueryHash(query, k)
        x == ExactLookup(counted, query_hash)
    IN IF x.done /\ IsNone(query_embedding)
       THEN [cache |-> x.cache, result |-> x.result]
       ELSE SemanticLookup(IF x.done THEN counted ELSE x.cache, query_embedding)

GetOp(c, query, k, query_embedding) ==
    LET counted == [c EXCEPT !.stats = Bump(@, "total_queries")]
        query_hash == GenerateQueryHash(query, k)
        x == ExactLookup(counted, query_hash)
    IN IF x.done THEN [cache |-> x.cache, result |-> x.result]
       ELSE SemanticLookup(x.cache, query_embedding)

\* get on a cache whose payloads are addresses of the heap h: GetOp finds the
\* address hit and the annotations, the response is made on the heap
GetOnHeap(c, h, query, k, query_embedding) ==
    LET r == GetOp(c, query, k, query_embedding)
    IN IF r.result.status = "return" /\ r.result.value # None
       THEN LET hit == The(r.result.value)
                made == CreateCacheResponseAt(
                            h, Address(hit["ref"]), hit["_cache_type"],
                            IF "_cache_similarity" \in DOMAIN hit
                            THEN Some(hit["_cache_similarity"]) ELSE None)
            IN [cache |-> r.cache, heap |-> made.heap,
                result |-> Returned(Some(made.response))]
       ELSE [cache |-> r.cache, heap |-> h, result |-> r.result]

(***************************************************************************)
(* QueryCache.set                                                          *)
(***************************************************************************)
\* Mutant: the semantic store is written whenever an embedding is passed
SetOpIgnoresSwitch(c, query, response_data, k, query_embedding) ==
    LET query_hash == GenerateQueryHash(query, k)
        timestamp == now
        exact == MoveToEnd(
                    SetItem(c.exact_cache, query_hash,
                            [data |-> response_data, timestamp |-> timestamp,
                             query |-> query]),
                    query_hash)
        semantic ==
            IF ~IsNone(query_embedding)
            THEN MoveToEnd(
                    SetItem(c.semantic_cache, query_hash,
                            <<The(query_embedding), response_data, timestamp, query>>),
                    query_hash)
            ELSE c.semantic_cache
    IN EnsureCacheSize(Cache(exact, semantic, c.stats))

\* Mutant: a set without embedding drops the semantic entry of its key
SetOpDropsSemantic(c, query, response_data, k, query_embedding) ==
    LET query_hash == GenerateQueryHash(query, k)
        timestamp == now
        exact == MoveToEnd(
                    SetItem(c.exact_cache, query_hash,
                            [data |-> response_data, timestamp |-> timestamp,
                             query |-> query]),
                    query_hash)
        semantic ==
            IF enable_semantic_cache /\ ~IsNone(query_embedding)
            THEN MoveToEnd(
                    SetItem(c.semantic_cache, query_hash,
                            <<The(query_embedding), response_data, timestamp, query>>),
                    query_hash)
            ELSE SelectSeq(c.semantic_cache, LAMBDA e : e.key # query_hash)
    IN EnsureCacheSize(Cache(exact, semantic, c.stats))

\* variant: a rewritten entry keeps its place in the store
SetOpKeepsPlace(c, query, response_data, k, query_embedding) ==
    LET query_hash == GenerateQueryHash(query, k)
        timestamp == now
        exact == SetItem(c.exact_cache, query_hash,
                         [data |-> response_data, timestamp |-> timestamp,
                          query |-> query])
        semantic ==
            IF enable_semantic_cache /\ ~IsNone(query_embedding)
            THEN SetItem(c.semantic_cache, query_hash,
                         <<The(query_embedding), response_data, timestamp, query>>)
            ELSE c.semantic_cache
    IN EnsureCacheSize(Cache(exact, semantic, c.stats))

\* variant: a set that carries an embedding writes the semantic store alone
SetOpEitherStore(c, query, response_data, k, query_embedding) ==
    LET query_hash == GenerateQueryHash(query, k)
        timestamp == now
        written == enable_semantic_cache /\ ~IsNone(query_embedding)
        exact ==
            IF written THEN c.exact_cache
            ELSE MoveToEnd(
                    SetItem(c.exact_cache, query_hash,
                            [data |-> response_data, timestamp |-> timestamp,
                             query |-> query]),
                    query_hash)
        semantic ==
            IF written
            THEN MoveToEnd(
                    SetItem(c.semantic_cache, query_hash,
                            <<The(query_embedding), response_data, timestamp, query>>),
                    query_hash)
            ELSE c.semantic_cache
    IN EnsureCacheSize(Cache(exact, semantic, c.stats))

SetOp(c, query, response_data, k, query_embedding) ==
    LET query_hash == GenerateQueryHash(query, k)
        timestamp == now
        exact == MoveToEnd(
                    SetItem(c.exact_cache, query_hash,
                            [data |-> response_data, timestamp |-> timestamp,
                             query |-> query]),
                    query_hash)
        semantic ==
            IF enable_semantic_cache /\ ~IsNone(query_embedding)
            THEN MoveToEnd(
                    SetItem(c.semantic_cache, query_hash,
                            <<The(query_embedding), response_data, timestamp, query>>),
                    query_hash)
            ELSE c.semantic_cache
    IN EnsureCacheSize(Cache(exact, semantic, c.stats))

(***************************************************************************)
(* QueryCache.clear, remove_expired, get_stats, reset_stats                *)
(***************************************************************************)
ClearOp(c) == Cache(<<>>, <<>>, c.stats)

\* Mutant: the sweep also takes the entries whose age equals the TTL
SweepExpiredAtTtl(timestamp) == (now - timestamp) >= The(ttl_seconds)

\* (current_time - timestamp) > self.ttl_seconds, as remove_expired writes it
SweepExpired(timestamp) == (now - timestamp) > The(ttl_seconds)

RemoveExpiredOp(c) ==
    IF IsNone(ttl_seconds) THEN c
    ELSE LET keptExact == SelectSeq(c.exact_cache,
                                    LAMBDA e : ~SweepExpired(e.value.timestamp))
             keptSemantic == SelectSeq(c.semantic_cache,
                                       LAMBDA e : ~SweepExpired(e.value[3]))
             removed == (Len(c.exact_cache) - Len(keptExact))
                        + (Len(c.semantic_cache) - Len(keptSemantic))
         IN Cache(keptExact, keptSemantic,
                  [c.stats EXCEPT !.ttl_expirations = @ + removed])

\* round(x, 2) of the percentage, in hundredths of a percent
\* variant: the rate is cut to two decimals, not rounded
HitRatePercentTruncated(total_hits, total_queries) ==
    IF total_queries > 0
    THEN (total_hits * 10000) \div total_queries
    ELSE 0

HitRatePercent(total_hits, total_queries) ==
    IF total_queries > 0
    THEN (2 * total_hits * 10000 + total_queries) \div (2 * total_queries)
    ELSE 0

GetStatsOp(c) ==
    LET total_hits == c.stats.exact_hits + c.stats.semantic_hits
    IN [exact_hits |-> c.stats.exact_hits,
        semantic_hits |-> c.stats.semantic_hits,
        misses |-> c.stats.misses,
        total_queries |-> c.stats.total_queries,
        evictions |-> c.stats.evictions,
        ttl_expirations |-> c.stats.ttl_expirations,
        total_hits |-> total_hits,
        hit_rate_percent |-> HitRatePercent(total_hits, c.stats.total_queries),
        exact_cache_size |-> Len(c.exact_cache),
        semantic_cache_size |-> Len(c.semantic_cache),
        total_cache_size |-> Len(c.exact_cache) + Len(c.semantic_cache)]

\* variant: the reset also drops the stored entries
ResetStatsOpClears(c) == Cache(<<>>, <<>>, InitStats)

ResetStatsOp(c) == Cache(c.exact_cache, c.semantic_cache, InitStats)

(***************************************************************************)
(* ChunkCache                                                              *)
(***************************************************************************)
\* embedding[:100]
HashPrefix == 100

Prefix(s, n) == SubSeq(s, 1, IF Len(s) <= n THEN Len(s) ELSE n)

\* ChunkCache._generate_embedding_hash: the digest of the bytes of the first
\* HashPrefix components followed by k
\* variant: the whole embedding is hashed
GenerateEmbeddingHashWhole(embedding, k) ==
    Sha256(Append(embedding, k))

GenerateEmbeddingHash(embedding, k) ==
    Sha256(Append(Prefix(embedding, HashPrefix), k))

InitChunkStats == [hits |-> 0, misses |-> 0, evictions |-> 0, expirations |-> 0]

\* ChunkCache.__init__
NewChunkCache(size, ttl) ==
    [max_size |-> size, ttl_seconds |-> ttl, cache |-> <<>>,
     stats |-> InitChunkStats]

\* bool(self.ttl_seconds): None and 0 are false
Truthy(o) == ~IsNone(o) /\ The(o) # 0

\* self.ttl_seconds and (time.time() - timestamp) > self.ttl_seconds
ChunkExpired(c, timestamp) ==
    Truthy(c.ttl_seconds) /\ (now - timestamp) > The(c.ttl_seconds)

\* ChunkCache.get
ChunkGetOp(c, embedding, k) ==
    LET cache_key == GenerateEmbeddingHash(embedding, k)
    IN IF Contains(c.cache, cache_key)
       THEN LET entry == Lookup(c.cache, cache_key)
                chunks == entry[1]
                timestamp == entry[2]
            IN IF ChunkExpired(c, timestamp)
               THEN [cache |-> [c EXCEPT !.cache = Del(@, cache_key),
                                         !.stats = Bump(Bump(@, "expirations"),
                                                        "misses")],
                     result |-> Returned(None)]
               ELSE [cache |-> [c EXCEPT !.cache = MoveToEnd(@, cache_key),
                                         !.stats = Bump(@, "hits")],
                     result |-> Returned(Some(chunks))]
       ELSE [cache |-> [c EXCEPT !.stats = Bump(@, "misses")],
             result |-> Returned(None)]

\* variant: the cache is never trimmed
ChunkSetOpKeepsAll(c, embedding, k, chunks) ==
    [c EXCEPT !.cache = SetItem(@, GenerateEmbeddingHash(embedding, k),
                                <<chunks, now>>)]

\* ChunkCache.set
ChunkSetOp(c, embedding, k, chunks) ==
    LET cache_key == GenerateEmbeddingHash(embedding, k)
        written == MoveToEnd(SetItem(c.cache, cache_key, <<chunks, now>>),
                             cache_key)
    IN IF Len(written) > c.max_size
       THEN [c EXCEPT !.cache = PopFirst(written),
                      !.stats = Bump(@, "evictions")]
       ELSE [c EXCEPT !.cache = written]

\* ChunkCache.get_stats
ChunkGetStatsOp(c) ==
    LET total_requests == c.stats.hits + c.stats.misses
    IN [hits |-> c.stats.hits,
        misses |-> c.stats.misses,
        evictions |-> c.stats.evictions,
        expirations |-> c.stats.expirations,
        hit_rate_percent |-> HitRatePercent(c.stats.hits, total_requests),
        cache_size |-> Len(c.cache)]

(***************************************************************************)
(* The state machine                                                       *)
(***************************************************************************)
Self == Cache(exact_cache, semantic_cache, stats)

\* no call is in progress
Idle == [pc |-> "idle"]

Becomes(c) ==
    /\ exact_cache' = c.exact_cache
    /\ semantic_cache' = c.semantic_cache
    /\ stats' = c.stats

\* QueryCache.__init__ with the configuration drawn
Construct(sizes, thresholds, ttls, enables) ==
    /\ max_size \in sizes
    /\ similarity_threshold \in thresholds
    /\ ttl_seconds \in ttls
    /\ enable_semantic_cache \in enables
    /\ exact_cache = <<>>
    /\ semantic_cache = <<>>
    /\ stats = InitStats
    /\ now = 0
    /\ ops = 0
    /\ history = <<>>
    /\ heap = <<>>
    /\ chunk_cache = None
    /\ inflight = Idle
    /\ setting = Idle

\* The last n elements of s
LastN(s, n) == IF Len(s) <= n THEN s ELSE SubSeq(s, Len(s) - n + 1, Len(s))

\* A public call is possible while fewer than limit calls were made
CanCall(limit) == ops < limit

\* The bookkeeping of a public call: history keeps the last window calls
Call(window, call) ==
    /\ ops' = ops + 1
    /\ history' = LastN(Append(history, call), window)
    /\ UNCHANGED <<config, now, heap, chunk_cache, inflight, setting>>

\* the last public call
last == IF history = <<>> THEN [op |-> "init"] ELSE history[Len(history)]

GetCall(embeddings, limit, window) ==
    /\ CanCall(limit)
    /\ \E rq \in Requests, query_embedding \in embeddings :
        LET query == rq[1]
            k == rq[2]
            r == GetOp(Self, query, k, query_embedding)
        IN /\ Becomes(r.cache)
           /\ Call(window, [op |-> "get", query |-> query, k |-> k,
                           embedding |-> query_embedding, at |-> now,
                           result |-> r.result])

\* The payloads the next set call may pass: the cache never reads a payload, so
\* each call passes one that no earlier call passed
Payloads == {[answer |-> ops + 1]}

SetCall(embeddings, limit, window) ==
    /\ CanCall(limit)
    /\ \E rq \in Requests, response_data \in Payloads, query_embedding \in embeddings :
        LET query == rq[1]
            k == rq[2]
        IN /\ Becomes(SetOp(Self, query, response_data, k, query_embedding))
           /\ Call(window, [op |-> "set", query |-> query, k |-> k,
                           embedding |-> query_embedding, at |-> now,
                           data |-> response_data, result |-> Returned(None)])

ClearCall(limit, window) ==
    /\ CanCall(limit)
    /\ Becomes(ClearOp(Self))
    /\ Call(window, [op |-> "clear", at |-> now, result |-> Returned(None)])

RemoveExpiredCall(limit, window) ==
    /\ CanCall(limit)
    /\ Becomes(RemoveExpiredOp(Self))
    /\ Call(window, [op |-> "remove_expired", at |-> now, result |-> Returned(None)])

GetStatsCall(limit, window) ==
    /\ CanCall(limit)
    /\ Becomes(Self)
    /\ Call(window, [op |-> "get_stats", at |-> now, result |-> Returned(Some(GetStatsOp(Self)))])

ResetStatsCall(limit, window) ==
    /\ CanCall(limit)
    /\ Becomes(ResetStatsOp(Self))
    /\ Call(window, [op |-> "reset_stats", at |-> now, result |-> Returned(None)])

(***************************************************************************)
(* Spec: every configuration, every call, with the clock                   *)
(***************************************************************************)
Init == Construct(0..MaxSizeBound, Thresholds, Ttls, BOOLEAN)

Get == GetCall(OptEmbeddings, MaxOps, 1)

Set == SetCall(OptEmbeddings, MaxOps, 1)

Clear == ClearCall(MaxOps, 1)

RemoveExpired == RemoveExpiredCall(MaxOps, 1)

GetStats == GetStatsCall(MaxOps, 1)

ResetStats == ResetStatsCall(MaxOps, 1)

\* time passes between two calls
Tick ==
    /\ now < MaxTime
    /\ now' = now + 1
    /\ UNCHANGED <<config, exact_cache, semantic_cache, stats, ops, history, heap,
                   chunk_cache, inflight, setting>>

Next == Get \/ Set \/ Clear \/ RemoveExpired \/ GetStats \/ ResetStats \/ Tick

Spec == Init /\ [][Next]_vars

(***************************************************************************)
(* SpecDeep: no TTL and a clock that stands still, a positive threshold,   *)
(* one more call                                                           *)
(***************************************************************************)
InitDeep == Construct(0..MaxSizeBound, {DefaultThreshold, SimScale}, {None}, BOOLEAN)

GetDeep == GetCall(OptEmbeddings, MaxOps + 1, 1)

SetDeep == SetCall(OptEmbeddings, MaxOps + 1, 1)

ClearDeep == ClearCall(MaxOps + 1, 1)

RemoveExpiredDeep == RemoveExpiredCall(MaxOps + 1, 1)

GetStatsDeep == GetStatsCall(MaxOps + 1, 1)

ResetStatsDeep == ResetStatsCall(MaxOps + 1, 1)

NextDeep ==
    GetDeep \/ SetDeep \/ ClearDeep \/ RemoveExpiredDeep \/ GetStatsDeep
    \/ ResetStatsDeep

SpecDeep == InitDeep /\ [][NextDeep]_vars

(***************************************************************************)
(* SpecLru: get and set alone on a cache without TTL, calls that pass one  *)
(* embedding or none, two more calls, with every call made kept in history *)
(***************************************************************************)
OneEmbedding == {None, Some(<<3, 4>>)}

InitLru == Construct(0..MaxSizeBound, {DefaultThreshold}, {None}, {TRUE})

GetLru == GetCall(OneEmbedding, MaxOps + 2, MaxOps + 2)

SetLru == SetCall(OneEmbedding, MaxOps + 2, MaxOps + 2)

NextLru == GetLru \/ SetLru

SpecLru == InitLru /\ [][NextLru]_vars

(***************************************************************************)
(* SpecTtl: the largest cache with a TTL and the default threshold, calls  *)
(* that pass one embedding or none, with the clock, one more call          *)
(***************************************************************************)
InitTtl == Construct({MaxSizeBound}, {DefaultThreshold}, {Some(1)}, {TRUE})

GetTtl == GetCall(OneEmbedding, MaxOps + 1, 1)

SetTtl == SetCall(OneEmbedding, MaxOps + 1, 1)

ClearTtl == ClearCall(MaxOps + 1, 1)

RemoveExpiredTtl == RemoveExpiredCall(MaxOps + 1, 1)

GetStatsTtl == GetStatsCall(MaxOps + 1, 1)

ResetStatsTtl == ResetStatsCall(MaxOps + 1, 1)

NextTtl ==
    GetTtl \/ SetTtl \/ ClearTtl \/ RemoveExpiredTtl \/ GetStatsTtl
    \/ ResetStatsTtl \/ Tick

SpecTtl == InitTtl /\ [][NextTtl]_vars

(***************************************************************************)
(* SpecRate: hit rates other than 0 and 100 percent need several gets.     *)
(* The largest cache, no TTL, get, set, get_stats and reset_stats with one *)
(* embedding or none, three more calls.                                    *)
(***************************************************************************)
InitRate == Construct({MaxSizeBound}, {DefaultThreshold}, {None}, {TRUE})

GetRate == GetCall(OneEmbedding, MaxOps + 3, 1)

SetRate == SetCall(OneEmbedding, MaxOps + 3, 1)

GetStatsRate == GetStatsCall(MaxOps + 3, 1)

ResetStatsRate == ResetStatsCall(MaxOps + 3, 1)

NextRate == GetRate \/ SetRate \/ GetStatsRate \/ ResetStatsRate

SpecRate == InitRate /\ [][NextRate]_vars

(***************************************************************************)
(* SpecPayload: payloads are dicts of the heap. set is passed the address  *)
(* of a new dict, get returns the address of the response it made, and the *)
(* caller edits the dict the last get returned. The largest cache, no TTL, *)
(* calls that pass one embedding or none, one more call.                   *)
(***************************************************************************)
InitPayload == Construct({MaxSizeBound}, {DefaultThreshold}, {None}, {TRUE})

\* The bookkeeping of a call that leaves the heap h
PayloadCall(call, h) ==
    /\ ops' = ops + 1
    /\ history' = <<call>>
    /\ heap' = h
    /\ UNCHANGED <<config, now, chunk_cache, inflight, setting>>

GetPayload ==
    /\ CanCall(MaxOps + 1)
    /\ \E rq \in Requests, query_embedding \in OneEmbedding :
        LET r == GetOnHeap(Self, heap, rq[1], rq[2], query_embedding)
        IN /\ Becomes(r.cache)
           /\ PayloadCall([op |-> "get", query |-> rq[1], k |-> rq[2],
                           embedding |-> query_embedding, at |-> now,
                           result |-> r.result], r.heap)

SetPayload ==
    /\ CanCall(MaxOps + 1)
    /\ \E rq \in Requests, query_embedding \in OneEmbedding :
        LET response_data == Address(Len(heap) + 1)
        IN /\ Becomes(SetOp(Self, rq[1], response_data, rq[2], query_embedding))
           /\ PayloadCall([op |-> "set", query |-> rq[1], k |-> rq[2],
                           embedding |-> query_embedding, at |-> now,
                           data |-> response_data, result |-> Returned(None)],
                          Append(heap, [answer |-> ops + 1]))

\* The edits of a dict: d[field] = <a new value> and del d[field]
Edits ==
    {[kind |-> "set", field |-> "note"],
     [kind |-> "set", field |-> "answer"],
     [kind |-> "set", field |-> "_cache_type"],
     [kind |-> "del", field |-> "answer"],
     [kind |-> "del", field |-> "_cache_hit"]}

\* a value the field does not have yet
NewValue(field) == IF field = "_cache_type" THEN "edited" ELSE 0

Edit(d, e) ==
    IF e.kind = "set" THEN (e.field :> NewValue(e.field)) @@ d
    ELSE [f \in DOMAIN d \ {e.field} |-> d[f]]

\* the caller edits the dict that the get just made returned
EditReturned ==
    /\ CanCall(MaxOps + 1)
    /\ last.op = "get"
    /\ last.result.status = "return" /\ last.result.value # None
    /\ \E e \in Edits :
        LET returned == The(last.result.value)
        IN PayloadCall([op |-> "edit", target |-> returned, edit |-> e, at |-> now,
                        result |-> Returned(None)],
                       [heap EXCEPT ![returned.ref] = Edit(@, e)])
    /\ UNCHANGED <<exact_cache, semantic_cache, stats>>

NextPayload == GetPayload \/ SetPayload \/ EditReturned

SpecPayload == InitPayload /\ [][NextPayload]_vars

(***************************************************************************)
(* SpecChunk: a ChunkCache of every size from 0 without TTL, its get, set  *)
(* and get_stats, the whole call history kept, two more calls. The         *)
(* QueryCache is left as constructed.                                      *)
(***************************************************************************)
\* the (embedding, k) pairs of the ChunkCache calls
ChunkRequests == {<<<<3, 4>>, 5>>, <<<<4, 3>>, 5>>, <<<<3, 4>>, 3>>}

ChunkTtls == {None, Some(0), Some(1)}

\* ChunkCache.__init__ with the configuration drawn
ConstructChunk(sizes, ttls) ==
    /\ max_size = MaxSizeBound
    /\ similarity_threshold = DefaultThreshold
    /\ ttl_seconds = None
    /\ enable_semantic_cache = TRUE
    /\ exact_cache = <<>>
    /\ semantic_cache = <<>>
    /\ stats = InitStats
    /\ now = 0
    /\ ops = 0
    /\ history = <<>>
    /\ heap = <<>>
    /\ chunk_cache \in {NewChunkCache(size, ttl) : size \in sizes, ttl \in ttls}
    /\ inflight = Idle
    /\ setting = Idle

\* The bookkeeping of a call on the ChunkCache, which becomes c
ChunkCall(window, call, c) ==
    /\ ops' = ops + 1
    /\ history' = LastN(Append(history, call), window)
    /\ chunk_cache' = c
    /\ UNCHANGED <<config, exact_cache, semantic_cache, stats, now, heap, inflight,
                   setting>>

ChunkGetCall(limit, window) ==
    /\ CanCall(limit)
    /\ \E rq \in ChunkRequests :
        LET r == ChunkGetOp(chunk_cache, rq[1], rq[2])
        IN ChunkCall(window, [op |-> "get", embedding |-> rq[1], k |-> rq[2],
                              at |-> now, result |-> r.result], r.cache)

\* the chunk list a set stores carries the number of the call
ChunkSetCall(limit, window) ==
    /\ CanCall(limit)
    /\ \E rq \in ChunkRequests :
        LET chunks == <<[chunk |-> ops + 1]>>
        IN ChunkCall(window, [op |-> "set", embedding |-> rq[1], k |-> rq[2],
                              at |-> now, chunks |-> chunks,
                              result |-> Returned(None)],
                     ChunkSetOp(chunk_cache, rq[1], rq[2], chunks))

ChunkGetStatsCall(limit, window) ==
    /\ CanCall(limit)
    /\ ChunkCall(window, [op |-> "get_stats", at |-> now,
                          result |-> Returned(Some(ChunkGetStatsOp(chunk_cache)))],
                 chunk_cache)

InitChunk == ConstructChunk(0..MaxSizeBound, {None})

GetChunk == ChunkGetCall(MaxOps + 2, MaxOps + 2)

SetChunk == ChunkSetCall(MaxOps + 2, MaxOps + 2)

GetStatsChunk == ChunkGetStatsCall(MaxOps + 2, MaxOps + 2)

NextChunk == GetChunk \/ SetChunk \/ GetStatsChunk

SpecChunk == InitChunk /\ [][NextChunk]_vars

(***************************************************************************)
(* SpecChunkTtl: the largest ChunkCache with every TTL (unset, 0, 1), its  *)
(* calls with the clock, one more call.                                    *)
(***************************************************************************)
InitChunkTtl == ConstructChunk({MaxSizeBound}, ChunkTtls)

GetChunkTtl == ChunkGetCall(MaxOps + 1, 1)

SetChunkTtl == ChunkSetCall(MaxOps + 1, 1)

GetStatsChunkTtl == ChunkGetStatsCall(MaxOps + 1, 1)

NextChunkTtl == GetChunkTtl \/ SetChunkTtl \/ GetStatsChunkTtl \/ Tick

SpecChunkTtl == InitChunkTtl /\ [][NextChunkTtl]_vars

(***************************************************************************)
(* SpecChunkKey: get and set on a ChunkCache without TTL, of max_size 1 or *)
(* the largest, called with embeddings longer than the hashed prefix and   *)
(* with short ones, one more call, every call kept in history.             *)
(***************************************************************************)
\* an embedding of HashPrefix + 1 components: ones, then a at the last hashed
\* position and b after it
Long(a, b) ==
    [i \in 1..(HashPrefix + 1) |->
        IF i < HashPrefix THEN 1 ELSE IF i = HashPrefix THEN a ELSE b]

KeyEmbeddings == {Long(1, 1), Long(1, 2), Long(2, 1), <<1>>}

ChunkKeyRequests == KeyEmbeddings \X {1, 5}

InitChunkKey == ConstructChunk({1, MaxSizeBound}, {None})

GetChunkKey ==
    /\ CanCall(MaxOps + 1)
    /\ \E rq \in ChunkKeyRequests :
        LET r == ChunkGetOp(chunk_cache, rq[1], rq[2])
        IN ChunkCall(MaxOps + 1,
                     [op |-> "get", embedding |-> rq[1], k |-> rq[2],
                      at |-> now, result |-> r.result], r.cache)

SetChunkKey ==
    /\ CanCall(MaxOps + 1)
    /\ \E rq \in ChunkKeyRequests :
        LET chunks == <<[chunk |-> ops + 1]>>
        IN ChunkCall(MaxOps + 1,
                     [op |-> "set", embedding |-> rq[1], k |-> rq[2],
                      at |-> now, chunks |-> chunks, result |-> Returned(None)],
                     ChunkSetOp(chunk_cache, rq[1], rq[2], chunks))

NextChunkKey == GetChunkKey \/ SetChunkKey

SpecChunkKey == InitChunkKey /\ [][NextChunkKey]_vars

(***************************************************************************)
(* SpecKey: one set of a query text made of at most MaxTokens tokens,      *)
(* among them white space, both cases of a letter, a digit and the         *)
(* separator of the key, with a result count that ends or not with that    *)
(* digit.                                                                  *)
(***************************************************************************)
Tokens == {<<" ">>, <<"A">>, <<"a">>, <<"1">>, <<"|", "k", "=">>}

\* the texts made of n tokens
RECURSIVE Texts(_)
Texts(n) ==
    IF n = 0 THEN {<<>>}
    ELSE {s \o t : s \in Texts(n - 1), t \in Tokens}

KeyQueries == UNION {Texts(n) : n \in 0..MaxTokens}

KeyCounts == {1, 2, 11, 12}

InitKey == Construct({MaxSizeBound}, {DefaultThreshold}, {None}, {TRUE})

SetKey ==
    /\ ops = 0
    /\ \E query \in KeyQueries, k \in KeyCounts, response_data \in Payloads :
        /\ Becomes(SetOp(Self, query, response_data, k, None))
        /\ Call(1, [op |-> "set", query |-> query, k |-> k, embedding |-> None,
                    at |-> now, data |-> response_data,
                    result |-> Returned(None)])

NextKey == SetKey

SpecKey == InitKey /\ [][NextKey]_vars

(***************************************************************************)
(* SpecWorkers: two workers share one QueryCache, which has no lock. One   *)
(* worker makes set, clear and remove_expired calls; the other makes get   *)
(* calls, and its get is taken one statement at a time, so that a call of  *)
(* the first worker can run between two statements (a thread switch        *)
(* between two bytecodes). inflight holds the position pc and the locals   *)
(* of the get in progress. The largest cache, TTL 1, the clock, one more   *)
(* call.                                                                   *)
(***************************************************************************)
InitWorkers == Construct({MaxSizeBound}, {DefaultThreshold}, {Some(1)}, {TRUE})

SetWorkers == SetCall(OneEmbedding, MaxOps + 1, 1)

ClearWorkers == ClearCall(MaxOps + 1, 1)

RemoveExpiredWorkers == RemoveExpiredCall(MaxOps + 1, 1)

\* get is entered: self.stats['total_queries'] += 1 and the fingerprint
GetBegin ==
    /\ CanCall(MaxOps + 1)
    /\ inflight.pc = "idle"
    /\ \E rq \in Requests, query_embedding \in OneEmbedding :
        inflight' = [pc |-> "check", query |-> rq[1], k |-> rq[2],
                     embedding |-> query_embedding,
                     query_hash |-> GenerateQueryHash(rq[1], rq[2]),
                     entry |-> None, items |-> <<>>, i |-> 0, best |-> NoMatch]
    /\ stats' = Bump(stats, "total_queries")
    /\ UNCHANGED <<config, exact_cache, semantic_cache, now, ops, history, heap,
                   chunk_cache, setting>>

\* the get in progress moves to the position pc
Goto(pc) ==
    /\ inflight' = [inflight EXCEPT !.pc = pc]
    /\ UNCHANGED <<exact_cache, semantic_cache, stats, ops, history>>

\* the get in progress ends with result, the counters becoming st
GetEnd(result, st) ==
    /\ inflight' = Idle
    /\ stats' = st
    /\ ops' = ops + 1
    /\ history' = <<[op |-> "get", query |-> inflight.query, k |-> inflight.k,
                     embedding |-> inflight.embedding, at |-> now,
                     result |-> result]>>

\* the get in progress raises error
GetRaise(error) ==
    /\ GetEnd(Raised(error), stats)
    /\ UNCHANGED <<exact_cache, semantic_cache>>

\* the miss counted and returned
GetMiss ==
    /\ GetEnd(Returned(None), Bump(stats, "misses"))
    /\ UNCHANGED <<exact_cache, semantic_cache>>

\* if query_hash in self.exact_cache
AtCheck ==
    /\ inflight.pc = "check"
    /\ IF Contains(exact_cache, inflight.query_hash)
       THEN Goto("read") ELSE Goto("semantic")

\* entry = self.exact_cache[query_hash]
AtRead ==
    /\ inflight.pc = "read"
    /\ IF Contains(exact_cache, inflight.query_hash)
       THEN /\ inflight' = [inflight EXCEPT
                               !.pc = "expiry",
                               !.entry = Some(Lookup(exact_cache, inflight.query_hash))]
            /\ UNCHANGED <<exact_cache, semantic_cache, stats, ops, history>>
       ELSE GetRaise("KeyError")

\* if self._is_expired(entry['timestamp'])
AtExpiry ==
    /\ inflight.pc = "expiry"
    /\ IF IsExpired(The(inflight.entry).timestamp)
       THEN Goto("delete") ELSE Goto("promote")

\* del self.exact_cache[query_hash]; self.stats['ttl_expirations'] += 1
AtDelete ==
    /\ inflight.pc = "delete"
    /\ IF Contains(exact_cache, inflight.query_hash)
       THEN /\ exact_cache' = Del(exact_cache, inflight.query_hash)
            /\ stats' = Bump(stats, "ttl_expirations")
            /\ inflight' = [inflight EXCEPT !.pc = "semantic"]
            /\ UNCHANGED <<semantic_cache, ops, history>>
       ELSE GetRaise("KeyError")

\* self.exact_cache.move_to_end(query_hash), the hit counted and returned
AtPromote ==
    /\ inflight.pc = "promote"
    /\ IF Contains(exact_cache, inflight.query_hash)
       THEN /\ exact_cache' = MoveToEnd(exact_cache, inflight.query_hash)
            /\ GetEnd(Returned(Some(CreateCacheResponse(
                          The(inflight.entry).data, "exact", None))),
                      Bump(stats, "exact_hits"))
            /\ UNCHANGED semantic_cache
       ELSE GetRaise("KeyError")

\* if self.enable_semantic_cache and query_embedding is not None, and the
\* iterator of self.semantic_cache.items() made
AtSemantic ==
    /\ inflight.pc = "semantic"
    /\ IF enable_semantic_cache /\ ~IsNone(inflight.embedding)
       THEN /\ inflight' = [inflight EXCEPT !.pc = "scan",
                                            !.items = semantic_cache, !.i = 1]
            /\ UNCHANGED <<exact_cache, semantic_cache, stats, ops, history>>
       ELSE GetMiss

\* one turn of the for loop: the iterator ends after its last item, raises
\* RuntimeError when the OrderedDict was changed since it was made, and
\* otherwise yields the next item to the loop body
AtScan ==
    /\ inflight.pc = "scan"
    /\ IF inflight.i > Len(inflight.items)
       THEN Goto("threshold")
       ELSE IF semantic_cache # inflight.items
       THEN GetRaise("RuntimeError")
       ELSE LET b == ScanStep(inflight.best, inflight.items[inflight.i],
                              The(inflight.embedding))
            IN IF b.raised
               THEN GetRaise("ValueError")
               ELSE /\ inflight' = [inflight EXCEPT !.best = b, !.i = @ + 1]
                    /\ UNCHANGED <<exact_cache, semantic_cache, stats, ops,
                                   history>>

\* if best_similarity >= self.similarity_threshold
AtThreshold ==
    /\ inflight.pc = "threshold"
    /\ IF inflight.best.best_similarity >= similarity_threshold
       THEN Goto("hit") ELSE GetMiss

\* self.semantic_cache.move_to_end(best_hash), the hit counted and returned
AtHit ==
    /\ inflight.pc = "hit"
    /\ IF /\ ~IsNone(inflight.best.best_hash)
          /\ Contains(semantic_cache, The(inflight.best.best_hash))
       THEN /\ semantic_cache' = MoveToEnd(semantic_cache,
                                           The(inflight.best.best_hash))
            /\ GetEnd(Returned(Some(CreateCacheResponse(
                          The(inflight.best.best_match), "semantic",
                          Some(inflight.best.best_similarity)))),
                      Bump(stats, "semantic_hits"))
            /\ UNCHANGED exact_cache
       ELSE GetRaise("KeyError")

\* the next statement of the get in progress
GetStep ==
    /\ (AtCheck \/ AtRead \/ AtExpiry \/ AtDelete \/ AtPromote \/ AtSemantic
        \/ AtScan \/ AtThreshold \/ AtHit)
    /\ UNCHANGED <<config, now, heap, chunk_cache, setting>>

NextWorkers ==
    SetWorkers \/ ClearWorkers \/ RemoveExpiredWorkers \/ GetBegin \/ GetStep
    \/ Tick

SpecWorkers == InitWorkers /\ [][NextWorkers]_vars

(***************************************************************************)
(* QueryCache.set taken one statement at a time: setting holds the         *)
(* position pc and the locals of the set in progress, the number of turns  *)
(* its eviction loop has made, and, for the properties, the object as it   *)
(* was when the set was entered (before) and the number of calls made      *)
(* before it (since).                                                      *)
(***************************************************************************)
\* query_hash = self._generate_query_hash(query, k); timestamp = time.time()
SetBegin(embeddings, limit) ==
    /\ CanCall(limit)
    /\ setting.pc = "idle"
    /\ \E rq \in Requests, response_data \in Payloads, query_embedding \in embeddings :
        setting' = [pc |-> "exact", query |-> rq[1], k |-> rq[2],
                    embedding |-> query_embedding, data |-> response_data,
                    query_hash |-> GenerateQueryHash(rq[1], rq[2]),
                    timestamp |-> now, total_entries |-> 0, which |-> "exact",
                    turns |-> 0, before |-> Self, since |-> Len(history)]
    /\ ops' = ops + 1
    /\ UNCHANGED <<config, exact_cache, semantic_cache, stats, now, history, heap,
                   chunk_cache, inflight>>

\* the set in progress moves to the position pc
SetGoto(pc) ==
    /\ setting' = [setting EXCEPT !.pc = pc]
    /\ UNCHANGED <<exact_cache, semantic_cache, stats, history>>

\* the set in progress ends with result
SetEnd(result) ==
    /\ setting' = Idle
    /\ history' = Append(history,
                         [op |-> "set", query |-> setting.query, k |-> setting.k,
                          embedding |-> setting.embedding, at |-> setting.timestamp,
                          data |-> setting.data, result |-> result])
    /\ UNCHANGED <<exact_cache, semantic_cache, stats>>

\* self.exact_cache[query_hash] = {...}
AtExactWrite ==
    /\ setting.pc = "exact"
    /\ exact_cache' = SetItem(exact_cache, setting.query_hash,
                              [data |-> setting.data,
                               timestamp |-> setting.timestamp,
                               query |-> setting.query])
    /\ setting' = [setting EXCEPT !.pc = "exact_move"]
    /\ UNCHANGED <<semantic_cache, stats, history>>

\* self.exact_cache.move_to_end(query_hash)
AtExactMove ==
    /\ setting.pc = "exact_move"
    /\ IF Contains(exact_cache, setting.query_hash)
       THEN /\ exact_cache' = MoveToEnd(exact_cache, setting.query_hash)
            /\ setting' = [setting EXCEPT !.pc = "semantic"]
            /\ UNCHANGED <<semantic_cache, stats, history>>
       ELSE SetEnd(Raised("KeyError"))

\* if self.enable_semantic_cache and query_embedding is not None:
\*     self.semantic_cache[query_hash] = (...)
AtSemanticWrite ==
    /\ setting.pc = "semantic"
    /\ IF enable_semantic_cache /\ ~IsNone(setting.embedding)
       THEN /\ semantic_cache' = SetItem(semantic_cache, setting.query_hash,
                                         <<The(setting.embedding), setting.data,
                                           setting.timestamp, setting.query>>)
            /\ setting' = [setting EXCEPT !.pc = "semantic_move"]
            /\ UNCHANGED <<exact_cache, stats, history>>
       ELSE SetGoto("ensure")

\* self.semantic_cache.move_to_end(query_hash)
AtSemanticMove ==
    /\ setting.pc = "semantic_move"
    /\ IF Contains(semantic_cache, setting.query_hash)
       THEN /\ semantic_cache' = MoveToEnd(semantic_cache, setting.query_hash)
            /\ setting' = [setting EXCEPT !.pc = "ensure"]
            /\ UNCHANGED <<exact_cache, stats, history>>
       ELSE SetEnd(Raised("KeyError"))

\* total_entries = len(self.exact_cache) + len(self.semantic_cache)
AtEnsure ==
    /\ setting.pc = "ensure"
    /\ setting' = [setting EXCEPT
                      !.pc = "while",
                      !.total_entries = Len(exact_cache) + Len(semantic_cache)]
    /\ UNCHANGED <<exact_cache, semantic_cache, stats, history>>

\* while total_entries > self.max_size
AtWhile ==
    /\ setting.pc = "while"
    /\ IF setting.total_entries > max_size
       THEN SetGoto("choose")
       ELSE SetEnd(Returned(None))

\* variant: a turn on an empty store is not counted
AtChooseCountsEvictions ==
    /\ setting.pc = "choose"
    /\ LET which == IF Len(exact_cache) >= Len(semantic_cache)
                    THEN "exact" ELSE "semantic"
           cache == IF which = "exact" THEN exact_cache ELSE semantic_cache
       IN setting' = [setting EXCEPT
                         !.which = which,
                         !.pc = IF cache # <<>> THEN "pop" ELSE "while"]
    /\ UNCHANGED <<exact_cache, semantic_cache, stats, history>>

\* if len(self.exact_cache) >= len(self.semantic_cache), and the `if cache`
\* of _evict_oldest on the store chosen
AtChoose ==
    /\ setting.pc = "choose"
    /\ LET which == IF Len(exact_cache) >= Len(semantic_cache)
                    THEN "exact" ELSE "semantic"
           cache == IF which = "exact" THEN exact_cache ELSE semantic_cache
       IN setting' = [setting EXCEPT
                         !.which = which,
                         !.pc = IF cache # <<>> THEN "pop" ELSE "decrement"]
    /\ UNCHANGED <<exact_cache, semantic_cache, stats, history>>

\* cache.popitem(last=False); self.stats['evictions'] += 1
AtPop ==
    /\ setting.pc = "pop"
    /\ LET cache == IF setting.which = "exact" THEN exact_cache ELSE semantic_cache
       IN IF cache = <<>>
          THEN SetEnd(Raised("KeyError"))
          ELSE /\ IF setting.which = "exact"
                  THEN /\ exact_cache' = PopFirst(exact_cache)
                       /\ UNCHANGED semantic_cache
                  ELSE /\ semantic_cache' = PopFirst(semantic_cache)
                       /\ UNCHANGED exact_cache
               /\ stats' = Bump(stats, "evictions")
               /\ setting' = [setting EXCEPT !.pc = "decrement"]
               /\ UNCHANGED history

\* total_entries -= 1
AtDecrement ==
    /\ setting.pc = "decrement"
    /\ setting' = [setting EXCEPT !.pc = "while", !.total_entries = @ - 1,
                                  !.turns = @ + 1]
    /\ UNCHANGED <<exact_cache, semantic_cache, stats, history>>

\* the next statement of the set in progress
SetStep ==
    /\ (AtExactWrite \/ AtExactMove \/ AtSemanticWrite \/ AtSemanticMove
        \/ AtEnsure \/ AtWhile \/ AtChoose \/ AtPop \/ AtDecrement)
    /\ UNCHANGED <<config, now, ops, heap, chunk_cache, inflight>>

(***************************************************************************)
(* SpecRace: two workers share one QueryCache, which has no lock. One      *)
(* worker makes set calls, taken one statement at a time; the other makes  *)
(* set, get and remove_expired calls, each of which can run between two    *)
(* statements of the set in progress. No TTL and a clock that stands       *)
(* still, every call kept in history.                                      *)
(***************************************************************************)
InitRace == Construct(0..MaxSizeBound, {DefaultThreshold}, {None}, {TRUE})

BeginRace == SetBegin(OneEmbedding, MaxOps + 1)

GetRace == GetCall(OneEmbedding, MaxOps + 1, MaxOps + 1)

SetRace == SetCall(OneEmbedding, MaxOps + 1, MaxOps + 1)

RemoveExpiredRace == RemoveExpiredCall(MaxOps + 1, MaxOps + 1)

NextRace == BeginRace \/ SetStep \/ GetRace \/ SetRace \/ RemoveExpiredRace

SpecRace == InitRace /\ [][NextRace]_vars

(***************************************************************************)
(* SpecLoop: one caller makes set calls, each taken one statement at a     *)
(* time, on caches of every max_size from -1 up. SpecLoopFair adds that    *)
(* the set in progress goes on to its next statement.                      *)
(***************************************************************************)
InitLoop ==
    Construct((0 - 1)..MaxSizeBound, {DefaultThreshold}, {None}, {TRUE})

BeginLoop == SetBegin(OneEmbedding, MaxOps + 1)

NextLoop == BeginLoop \/ SetStep

SpecLoop == InitLoop /\ [][NextLoop]_vars

SpecLoopFair == SpecLoop /\ WF_vars(SetStep)

(***************************************************************************)
(* Vocabulary of the properties                                            *)
(***************************************************************************)
\* age strictly greater than a configured TTL
OlderThanTtl(timestamp) ==
    ~IsNone(ttl_seconds) /\ now - timestamp > The(ttl_seconds)

TotalEntries == Len(exact_cache) + Len(semantic_cache)

IsHit(result) == result.status = "return" /\ result.value # None

IsAbsent(result) == result.status = "return" /\ result.value = None

IsRaise(result) == result.status = "raise"

\* the exact hit that carries the payload data
ExactHit(data) == Returned(Some(CreateCacheResponse(data, "exact", None)))

\* the step is a public call op
Step(op) == ops' = ops + 1 /\ last'.op = op

(***************************************************************************)
(* C1: between two public calls the two stores together hold at most       *)
(* max_size entries (max_size >= 0 in every configuration drawn).          *)
(***************************************************************************)
C1_Capacity == TotalEntries <= max_size

\* a set has just evicted, and left the stores full with both in use
C1_Witness ==
    /\ last.op = "set"
    /\ stats.evictions > 0
    /\ max_size >= 1
    /\ TotalEntries = max_size
    /\ semantic_cache # <<>>
    /\ exact_cache # <<>>

(***************************************************************************)
(* C2: with max_size >= 1, right after set(q, payload, k[, embedding]) a   *)
(* get(q, k) made before the TTL has run out is an exact hit that carries   *)
(* the payload.                                                            *)
(***************************************************************************)
C2_RoundTrip ==
    (last.op = "set" /\ max_size >= 1 /\ ~OlderThanTtl(last.at))
        => GetOp(Self, last.query, last.k, None).result = ExactHit(last.data)

(***************************************************************************)
(* C3: when the exact store holds nothing but the entry of the set(q, P,   *)
(* k1) just made, get(q, k2) with k2 # k1 and no embedding returns absent  *)
(* and counts one miss.                                                    *)
(***************************************************************************)
C3_KSensitivity ==
    (/\ last.op = "set"
     /\ Keys(exact_cache) = {GenerateQueryHash(last.query, last.k)})
        => \A rq \in Requests :
              (rq[1] = last.query /\ rq[2] # last.k)
                  => LET r == GetOp(Self, rq[1], rq[2], None)
                     IN /\ r.result = Returned(None)
                        /\ r.cache.stats.misses = stats.misses + 1
                        /\ r.cache.stats.exact_hits = stats.exact_hits

\* get(q, k2) has just missed beside the unexpired entry of (q, k1)
C3_Witness ==
    /\ last.op = "get"
    /\ IsNone(last.embedding)
    /\ last.result = Returned(None)
    /\ stats.misses = 1
    /\ stats.ttl_expirations = 0
    /\ Len(exact_cache) = 1
    /\ exact_cache[1].value.query = last.query
    /\ exact_cache[1].key # GenerateQueryHash(last.query, last.k)

(***************************************************************************)
(* Vocabulary of the steps: unprimed is the state before the call          *)
(***************************************************************************)
\* fingerprint of the call just made
CalledHash == GenerateQueryHash(last'.query, last'.k)

\* the get just made found the exact entry of its (q, k) older than the TTL
FoundExpiredExact ==
    /\ Step("get")
    /\ Contains(exact_cache, CalledHash)
    /\ OlderThanTtl(Lookup(exact_cache, CalledHash).timestamp)

\* the get just made found the exact entry of its (q, k) not older than the TTL
FoundLiveExact ==
    /\ Step("get")
    /\ Contains(exact_cache, CalledHash)
    /\ ~OlderThanTtl(Lookup(exact_cache, CalledHash).timestamp)

\* the response the call just made returned, when it returned a hit
Response == The(last'.result.value)

ReturnedHitOfType(t) == IsHit(last'.result) /\ Response["_cache_type"] = t

\* the semantic lookup runs: semantic caching is on and an embedding was passed
SemanticAsked == enable_semantic_cache /\ ~IsNone(last'.embedding)

(***************************************************************************)
(* C4 (as amended): with a TTL configured, when get(q, k, ...) finds the   *)
(* exact entry of (q, k) with age strictly greater than ttl_seconds, the   *)
(* entry is removed from the exact store, ttl_expirations increases by     *)
(* exactly 1, exact_hits does not increase and the call returns no exact   *)
(* hit; it reports a miss when the semantic lookup does not run (no        *)
(* embedding passed or semantic caching disabled), and otherwise the       *)
(* semantic lookup decides the outcome.                                    *)
(***************************************************************************)
C4_LazyExpiry ==
    [][FoundExpiredExact =>
          /\ ~Contains(exact_cache', CalledHash)
          /\ Len(exact_cache') = Len(exact_cache) - 1
          /\ stats'.ttl_expirations = stats.ttl_expirations + 1
          /\ stats'.exact_hits = stats.exact_hits
          /\ ~ReturnedHitOfType("exact")
          /\ ~SemanticAsked =>
                /\ last'.result = Returned(None)
                /\ stats'.misses = stats.misses + 1]_vars

\* C4 as claimed: such a get always reports a miss
C4_Original ==
    [][FoundExpiredExact =>
          /\ ~Contains(exact_cache', CalledHash)
          /\ stats'.ttl_expirations = stats.ttl_expirations + 1
          /\ stats'.exact_hits = stats.exact_hits
          /\ last'.result = Returned(None)]_vars

\* the second call, a get, has just expired the entry the first call had set
C4_Witness ==
    /\ ops = 2
    /\ last.op = "get"
    /\ last.result = Returned(None)
    /\ stats.ttl_expirations = 1
    /\ stats.total_queries = 1
    /\ stats.misses = 1
    /\ stats.exact_hits = 0
    /\ exact_cache = <<>>

(***************************************************************************)
(* C5: get never returns the payload of an entry older than the TTL; an    *)
(* entry whose age is at most the TTL is never treated as expired (get     *)
(* hits it, the sweep keeps it, the semantic lookup does not pass over     *)
(* it); without a TTL nothing ever expires.                                *)
(***************************************************************************)
\* some semantic entry not older than the TTL carries the payload returned
LiveSemanticSource ==
    \E i \in 1..Len(semantic_cache) :
        /\ ~OlderThanTtl(semantic_cache[i].value[3])
        /\ Response = CreateCacheResponse(semantic_cache[i].value[2], "semantic",
                                          Some(Response["_cache_similarity"]))

\* no semantic entry that is not older than the TTL would have matched
NoLiveSemanticMatch ==
    \A i \in 1..Len(semantic_cache) :
        LET e == semantic_cache[i].value
        IN (~OlderThanTtl(e[3]) /\ Len(e[1]) = Len(The(last'.embedding)))
              => LET sim == CosineSimilarity(The(last'.embedding), e[1])
                 IN sim < similarity_threshold \/ sim <= 0

\* the entries of d not older than the TTL, timestamps read by ts
Live(d, ts(_)) == SelectSeq(d, LAMBDA e : ~OlderThanTtl(ts(e)))

ExactTimestamp(e) == e.value.timestamp

SemanticTimestamp(e) == e.value[3]

C5_NoStale ==
    [][/\ (Step("get") /\ ReturnedHitOfType("exact")) => FoundLiveExact
       /\ (Step("get") /\ ReturnedHitOfType("semantic")) => LiveSemanticSource
       /\ FoundLiveExact =>
             /\ last'.result = ExactHit(Lookup(exact_cache, CalledHash).data)
             /\ Contains(exact_cache', CalledHash)
             /\ stats'.ttl_expirations = stats.ttl_expirations
       /\ (Step("get") /\ SemanticAsked /\ IsAbsent(last'.result))
             => NoLiveSemanticMatch
       /\ Step("remove_expired") =>
             /\ exact_cache' = Live(exact_cache, ExactTimestamp)
             /\ semantic_cache' = Live(semantic_cache, SemanticTimestamp)
       /\ (IsNone(ttl_seconds) /\ ~Step("reset_stats")) =>
             /\ stats'.ttl_expirations = stats.ttl_expirations
             /\ (~Step("set") /\ ~Step("clear")) =>
                   /\ Len(exact_cache') = Len(exact_cache)
                   /\ Len(semantic_cache') = Len(semantic_cache)]_vars

\* a get has just hit an exact entry whose age equals the TTL
C5_Witness ==
    /\ last.op = "get"
    /\ ~IsNone(ttl_seconds)
    /\ IsHit(last.result)
    /\ The(last.result.value)["_cache_type"] = "exact"
    /\ LET h == GenerateQueryHash(last.query, last.k)
       IN /\ Contains(exact_cache, h)
          /\ last.at - Lookup(exact_cache, h).timestamp = The(ttl_seconds)

(***************************************************************************)
(* Vocabulary of the call record (SpecLru keeps every call made)           *)
(***************************************************************************)
\* fingerprint of a recorded call
HashOf(call) == GenerateQueryHash(call.query, call.k)

\* the calls made so far are sets without embedding of different fingerprints
OnlyDistinctSets ==
    /\ Len(history) = ops
    /\ \A i \in 1..ops :
          history[i].op = "set" /\ IsNone(history[i].embedding)
    /\ \A i, j \in 1..ops : i # j => HashOf(history[i]) # HashOf(history[j])

\* the keys of d, oldest first
KeySeq(d) == [i \in 1..Len(d) |-> d[i].key]

(***************************************************************************)
(* C6: on an empty cache with max_size = N >= 1, after N + 1 sets of       *)
(* different queries q1..q(N+1) without embeddings the exact store holds   *)
(* q2..q(N+1) in that order, q1 is gone (a get of it misses), each of      *)
(* q2..q(N+1) is an exact hit that carries its payload, and evictions is   *)
(* exactly 1.                                                              *)
(***************************************************************************)
C6_EvictionOrder ==
    (max_size >= 1 /\ ops = max_size + 1 /\ OnlyDistinctSets) =>
        /\ KeySeq(exact_cache) = [i \in 1..max_size |-> HashOf(history[i + 1])]
        /\ semantic_cache = <<>>
        /\ stats.evictions = 1
        /\ GetOp(Self, history[1].query, history[1].k, None).result = Returned(None)
        /\ \A i \in 2..ops :
              GetOp(Self, history[i].query, history[i].k, None).result
                  = ExactHit(history[i].data)

\* three different queries have been set in a cache of two
C6_Witness ==
    /\ max_size = 2
    /\ ops = 3
    /\ OnlyDistinctSets
    /\ Len(exact_cache) = 2

(***************************************************************************)
(* C7: with get and set alone and no TTL, each store holds the keys last   *)
(* set or hit most recently in it, listed in the order of their last set   *)
(* or hit: the recency order is the order of last set-or-hit, and every    *)
(* key evicted from a store was older, by last set or hit, than every key  *)
(* the store still holds.                                                  *)
(***************************************************************************)
\* the response a recorded get returned is a hit of type t
HitOfType(call, t) ==
    /\ call.op = "get"
    /\ IsHit(call.result)
    /\ The(call.result.value)["_cache_type"] = t

\* the key a recorded call wrote or hit in a store, None when it touched none;
\* a payload carries the number of the set that stored it
Touched(store, call) ==
    IF store = "exact"
    THEN IF call.op = "set" \/ HitOfType(call, "exact")
         THEN Some(HashOf(call)) ELSE None
    ELSE IF call.op = "set" /\ enable_semantic_cache /\ ~IsNone(call.embedding)
         THEN Some(HashOf(call))
         ELSE IF HitOfType(call, "semantic")
              THEN Some(HashOf(history[The(call.result.value)["answer"]]))
              ELSE None

\* the keys the first i calls touched in a store, in the order of their last
\* set or hit
RECURSIVE TouchOrder(_, _)
TouchOrder(store, i) ==
    IF i = 0 THEN <<>>
    ELSE LET before == TouchOrder(store, i - 1)
             t == Touched(store, history[i])
         IN IF IsNone(t) THEN before
            ELSE Append(SelectSeq(before, LAMBDA h : h # The(t)), The(t))

\* the keys the calls made so far touched in a store, last touched last
Order(store) == TouchOrder(store, Len(history))

C7_Promotion ==
    /\ KeySeq(exact_cache) = LastN(Order("exact"), Len(exact_cache))
    /\ KeySeq(semantic_cache) = LastN(Order("semantic"), Len(semantic_cache))

\* max_size = 2: set q1, set q2, get q1 (hit), set q3 has evicted q2 and kept q1
C7_Witness ==
    /\ max_size = 2
    /\ ops = 4 /\ Len(history) = 4
    /\ history[1].op = "set" /\ history[2].op = "set" /\ history[4].op = "set"
    /\ \A i \in 1..4 : IsNone(history[i].embedding)
    /\ HitOfType(history[3], "exact")
    /\ HashOf(history[3]) = HashOf(history[1])
    /\ HashOf(history[2]) # HashOf(history[1])
    /\ HashOf(history[4]) \notin {HashOf(history[1]), HashOf(history[2])}
    /\ KeySeq(exact_cache) = <<HashOf(history[1]), HashOf(history[4])>>
    /\ stats.evictions = 1

(***************************************************************************)
(* C8: in a cache of max_size >= 1, when the exact lookup misses, semantic *)
(* caching is enabled and an embedding of the stored dimension is passed,  *)
(* get returns a semantic hit                                              *)
(* if and only if the best similarity over the unexpired semantic entries  *)
(* is at least similarity_threshold, and a miss otherwise; on a hit the    *)
(* best entry becomes the most recent of the semantic store, semantic_hits *)
(* increases by 1 and the result carries the type 'semantic' and the best  *)
(* similarity.                                                             *)
(***************************************************************************)
\* the unexpired semantic entries, before the call
LiveSemantic == Live(semantic_cache, SemanticTimestamp)

\* similarity of the embedding passed to the entry e
SimilarityTo(e) == CosineSimilarity(The(last'.embedding), e.value[1])

\* the get just made went on to the semantic scan, which met no other dimension
ScannedSemantic ==
    /\ Step("get")
    /\ SemanticAsked
    /\ ~FoundLiveExact
    /\ \A i \in 1..Len(LiveSemantic) :
          ~Incompatible(The(last'.embedding), LiveSemantic[i].value[1])

\* e is a best unexpired entry and its similarity reaches the threshold
BestAndEnough(e) ==
    /\ SimilarityTo(e) >= similarity_threshold
    /\ \A j \in 1..Len(LiveSemantic) : SimilarityTo(LiveSemantic[j]) <= SimilarityTo(e)

C8_ThresholdBoundary ==
    [][(max_size >= 1 /\ ScannedSemantic) =>
          IF \E i \in 1..Len(LiveSemantic) : BestAndEnough(LiveSemantic[i])
          THEN /\ ReturnedHitOfType("semantic")
               /\ stats'.semantic_hits = stats.semantic_hits + 1
               /\ Len(semantic_cache') = Len(semantic_cache)
               /\ LET e == semantic_cache'[Len(semantic_cache')]
                  IN /\ BestAndEnough(e)
                     /\ semantic_cache' = MoveToEnd(semantic_cache, e.key)
                     /\ Response = CreateCacheResponse(e.value[2], "semantic",
                                                       Some(SimilarityTo(e)))
          ELSE /\ last'.result = Returned(None)
               /\ stats'.misses = stats.misses + 1
               /\ stats'.semantic_hits = stats.semantic_hits
               /\ semantic_cache' = semantic_cache]_vars

(***************************************************************************)
(* C9 (as amended): counting since construction or the last reset_stats,   *)
(* total_queries is exact_hits + semantic_hits + misses plus the number of *)
(* get calls that raised: a get that returns adds 1 to exactly one of      *)
(* exact_hits (exact hit), semantic_hits (semantic hit) or misses (absent),*)
(* a get that raises adds 1 to total_queries and to none of the three,     *)
(* reset_stats zeroes all four and no other call changes them.             *)
(***************************************************************************)
Outcomes(st) == st.exact_hits + st.semantic_hits + st.misses

\* get calls counted without an outcome
Unaccounted(st) == st.total_queries - Outcomes(st)

OutcomeCounters(st) == <<st.exact_hits, st.semantic_hits, st.misses>>

C9_StatsConsistency ==
    [][/\ Unaccounted(stats') >= 0
       /\ Step("get") =>
             /\ IsRaise(last'.result) =>
                   /\ OutcomeCounters(stats') = OutcomeCounters(stats)
                   /\ Unaccounted(stats') = Unaccounted(stats) + 1
             /\ ReturnedHitOfType("exact") =>
                   OutcomeCounters(stats') = <<stats.exact_hits + 1,
                                               stats.semantic_hits, stats.misses>>
             /\ ReturnedHitOfType("semantic") =>
                   OutcomeCounters(stats') = <<stats.exact_hits,
                                               stats.semantic_hits + 1, stats.misses>>
             /\ IsAbsent(last'.result) =>
                   OutcomeCounters(stats') = <<stats.exact_hits,
                                               stats.semantic_hits, stats.misses + 1>>
             /\ ~IsRaise(last'.result) => Unaccounted(stats') = Unaccounted(stats)
       /\ Step("reset_stats") =>
             stats'.total_queries = 0 /\ OutcomeCounters(stats') = <<0, 0, 0>>
       /\ (~Step("get") /\ ~Step("reset_stats")) =>
             /\ OutcomeCounters(stats') = OutcomeCounters(stats)
             /\ Unaccounted(stats') = Unaccounted(stats)]_vars

\* C9 as claimed: the three outcome counters always add up to total_queries
C9_Original == stats.total_queries = Outcomes(stats)

\* after a miss, a get has raised: two calls counted, one outcome
C9_Witness ==
    /\ last.op = "get"
    /\ IsRaise(last.result)
    /\ stats.total_queries = 2
    /\ stats.misses = 1
    /\ Outcomes(stats) = 1

(***************************************************************************)
(* C10: every get call adds exactly 1 to total_queries, whatever path it   *)
(* takes; reset_stats sets it to 0; no other step changes it.              *)
(***************************************************************************)
C10_TotalQueries ==
    [][/\ Step("get") => stats'.total_queries = stats.total_queries + 1
       /\ Step("reset_stats") => stats'.total_queries = 0
       /\ (~Step("get") /\ ~Step("reset_stats")) =>
             stats'.total_queries = stats.total_queries]_vars

\* the second call, a get with an embedding, has found the exact entry expired
\* and gone on to scan the semantic store
C10_Witness ==
    /\ ops = 2
    /\ last.op = "get"
    /\ ~IsNone(last.embedding)
    /\ enable_semantic_cache
    /\ semantic_cache # <<>>
    /\ stats.ttl_expirations = 1
    /\ stats.total_queries = 1

(***************************************************************************)
(* C11: a get that goes on to the semantic scan with an embedding whose    *)
(* length differs from that of some unexpired stored embedding raises the  *)
(* dimension error of the similarity computation (the spec's               *)
(* InvalidEmbedding condition, ValueError in the code) to the caller: it   *)
(* returns neither a miss nor a hit and counts neither; and that error is  *)
(* raised in no other case.                                                *)
(***************************************************************************)
\* the get just made went on to the semantic scan
ReachedScan == Step("get") /\ SemanticAsked /\ ~FoundLiveExact

\* some unexpired stored embedding has another length than the one passed
MeetsOtherDimension ==
    \E i \in 1..Len(LiveSemantic) :
        Incompatible(The(last'.embedding), LiveSemantic[i].value[1])

C11_DimensionMismatch ==
    [][/\ (ReachedScan /\ MeetsOtherDimension) =>
             /\ last'.result = Raised("ValueError")
             /\ OutcomeCounters(stats') = OutcomeCounters(stats)
             /\ semantic_cache' = semantic_cache
       /\ (Step("get") /\ last'.result = Raised("ValueError")) =>
             ReachedScan /\ MeetsOtherDimension]_vars

\* a get has just raised the dimension error on a stored embedding whose age
\* equals the TTL
C11_Witness ==
    /\ last.op = "get"
    /\ last.result = Raised("ValueError")
    /\ ~IsNone(ttl_seconds)
    /\ Len(semantic_cache) = 1
    /\ Len(semantic_cache[1].value[1]) # Len(The(last.embedding))
    /\ last.at - semantic_cache[1].value[3] = The(ttl_seconds)
    /\ stats.total_queries = 1
    /\ Outcomes(stats) = 0

(***************************************************************************)
(* C12: a cache on which set or get has been called has max_size >= 1 and  *)
(* a TTL that is unset or not negative, construction having rejected every *)
(* other configuration.                                                    *)
(***************************************************************************)
C12_ConfigRejected ==
    last.op \in {"set", "get"} =>
        /\ max_size >= 1
        /\ IsNone(ttl_seconds) \/ The(ttl_seconds) >= 0

(***************************************************************************)
(* C13: in a cache of max_size >= 1 (TTL unset or positive, threshold in   *)
(* [0, 1]) a get that passes no embedding, or one of the length of every   *)
(* unexpired stored embedding, returns a hit or absent and never raises;   *)
(* clear, remove_expired, get_stats and reset_stats never raise.           *)
(***************************************************************************)
C13_MissNeverFails ==
    [][max_size >= 1 =>
          /\ (Step("get") /\ (IsNone(last'.embedding) \/ ~MeetsOtherDimension))
                => ~IsRaise(last'.result)
          /\ (Step("clear") \/ Step("remove_expired") \/ Step("get_stats")
              \/ Step("reset_stats"))
                => ~IsRaise(last'.result)]_vars

(***************************************************************************)
(* C14: the dict a get returns is a new dict, none of the stored ones,     *)
(* holding the fields of the stored payload and the provenance fields;     *)
(* get changes no dict that existed; an edit of the returned dict (a field *)
(* added, replaced or deleted, provenance fields included) changes no      *)
(* stored dict and nothing of what any later get returns; and no stored    *)
(* dict ever has a provenance field.                                       *)
(***************************************************************************)
Provenance == {"_cache_hit", "_cache_type", "_cache_similarity"}

\* the addresses the two stores hold
AddressesIn(exact, semantic) ==
    {exact[i].value.data : i \in 1..Len(exact)}
    \cup {semantic[i].value[2] : i \in 1..Len(semantic)}

StoredAddresses == AddressesIn(exact_cache, semantic_cache)

\* the dict d without its provenance fields
WithoutProvenance(d) == [f \in DOMAIN d \ Provenance |-> d[f]]

\* the dict a get made on the cache c with the heap h would return, None on a
\* miss
WouldReturnIn(c, h, rq, query_embedding) ==
    LET r == GetOnHeap(c, h, rq[1], rq[2], query_embedding)
    IN IF IsHit(r.result) THEN Some(r.heap[The(r.result.value).ref]) ELSE None

\* the dict d is the stored dict at address a with the provenance fields added
AnnotatedCopyOf(d, a) ==
    /\ WithoutProvenance(d) = heap[a.ref]
    /\ d["_cache_hit"] = TRUE
    /\ d["_cache_type"] \in {"exact", "semantic"}
    /\ ("_cache_similarity" \in DOMAIN d) = (d["_cache_type"] = "semantic")

C14_PayloadIndependence ==
    [][/\ (Step("get") /\ IsHit(last'.result)) =>
             LET returned == The(last'.result.value)
             IN /\ returned \notin AddressesIn(exact_cache', semantic_cache')
                /\ returned.ref = Len(heap) + 1
                /\ SubSeq(heap', 1, Len(heap)) = heap
                /\ \E a \in StoredAddresses : AnnotatedCopyOf(heap'[returned.ref], a)
                /\ heap'[returned.ref]["_cache_type"] = "exact" =>
                      AnnotatedCopyOf(heap'[returned.ref],
                                      Lookup(exact_cache, CalledHash).data)
       /\ Step("edit") =>
             /\ \A a \in StoredAddresses : heap'[a.ref] = heap[a.ref]
             /\ \A rq \in Requests, e \in OneEmbedding :
                   WouldReturnIn(Cache(exact_cache', semantic_cache', stats'),
                                 heap', rq, e)
                       = WouldReturnIn(Self, heap, rq, e)
       /\ \A a \in AddressesIn(exact_cache', semantic_cache') :
             DOMAIN heap'[a.ref] \cap Provenance = {}]_vars

\* the caller has deleted a payload field of the dict a get returned, and the
\* stored dict it was copied from still has it
C14_Witness ==
    /\ last.op = "edit"
    /\ last.edit = [kind |-> "del", field |-> "answer"]
    /\ "answer" \notin DOMAIN heap[last.target.ref]
    /\ last.target \notin StoredAddresses
    /\ \E a \in StoredAddresses :
          /\ heap[a.ref] = [answer |-> 1]
          /\ WithoutProvenance(heap[last.target.ref]) = <<>>

(***************************************************************************)
(* C15: with enable_semantic_cache false the semantic store is empty,      *)
(* semantic_hits is 0 and no get has returned a result of type 'semantic', *)
(* whatever embeddings set and get are passed.                             *)
(***************************************************************************)
C15_SemanticDisabled ==
    ~enable_semantic_cache =>
        /\ semantic_cache = <<>>
        /\ stats.semantic_hits = 0
        /\ ~HitOfType(last, "semantic")
        /\ \A rq \in Requests, e \in OptEmbeddings :
              LET r == GetOp(Self, rq[1], rq[2], e).result
              IN ~IsRaise(r) /\ (IsHit(r) => The(r.value)["_cache_type"] = "exact")

\* with semantic caching off, a set that passes an embedding has just written
\* the exact store alone
C15_Witness ==
    /\ ~enable_semantic_cache
    /\ last.op = "set"
    /\ ~IsNone(last.embedding)
    /\ max_size >= 2
    /\ Len(exact_cache) = 1
    /\ semantic_cache = <<>>

(***************************************************************************)
(* C16: a set writes the entry of (q, k), with the payload and the current *)
(* time, at the recent end of the exact store, and writes it to the        *)
(* semantic store if and only if an embedding is passed and semantic       *)
(* caching is enabled; after that only the eviction pass removes entries,  *)
(* oldest first and no more than the excess over max_size. A set without   *)
(* embedding thus leaves the semantic entries, their payloads, timestamps  *)
(* and order as they were, apart from evictions.                           *)
(***************************************************************************)
\* d with its n oldest entries removed
DropOldest(d, n) == SubSeq(d, n + 1, Len(d))

\* d after the value v was written under the key h and made the most recent
WrittenLast(d, h, v) ==
    SelectSeq(d, LAMBDA x : x.key # h) \o <<[key |-> h, value |-> v]>>

\* the stores after are the stores written, exact and semantic, less the
\* oldest entries in excess of max_size, each counted as an eviction
EvictedDownTo(exact, semantic, exactAfter, semanticAfter, evicted) ==
    LET ne == Len(exact) - Len(exactAfter)
        ns == Len(semantic) - Len(semanticAfter)
        excess == Len(exact) + Len(semantic) - max_size
    IN /\ ne >= 0 /\ ns >= 0
       /\ exactAfter = DropOldest(exact, ne)
       /\ semanticAfter = DropOldest(semantic, ns)
       /\ ne + ns = (IF excess > 0 THEN excess ELSE 0)
       /\ evicted = ne + ns

\* the stores after the call are those the call wrote under the key h, less
\* the evictions
SetWrote(call, h) ==
    EvictedDownTo(
        WrittenLast(exact_cache, h,
                    [data |-> call.data, timestamp |-> call.at, query |-> call.query]),
        IF enable_semantic_cache /\ ~IsNone(call.embedding)
        THEN WrittenLast(semantic_cache, h,
                         <<The(call.embedding), call.data, call.at, call.query>>)
        ELSE semantic_cache,
        exact_cache', semantic_cache', stats'.evictions - stats.evictions)

C16_SetWrites ==
    [][Step("set") =>
          /\ SetWrote(last', CalledHash)
          /\ stats' = [stats EXCEPT !.evictions = stats'.evictions]]_vars

\* a set without embedding has just rewritten the exact entry of a key and
\* left the semantic entry of that key, with its older payload, in place
C16_Witness ==
    /\ last.op = "set"
    /\ IsNone(last.embedding)
    /\ Contains(exact_cache, HashOf(last))
    /\ Lookup(exact_cache, HashOf(last)).data = last.data
    /\ Contains(semantic_cache, HashOf(last))
    /\ Lookup(semantic_cache, HashOf(last))[2] # last.data

(***************************************************************************)
(* C17: with a TTL configured, remove_expired leaves in each store exactly *)
(* the entries of age <= ttl_seconds, with their payloads, timestamps and  *)
(* relative order, and adds to ttl_expirations the number of entries it    *)
(* removed, a fingerprint removed from both stores counting twice; no      *)
(* other counter changes; with ttl_seconds unset it changes nothing.       *)
(***************************************************************************)
\* the stores and the counters after the sweep, given those before
Swept(exact, semantic, st, exactAfter, semanticAfter, stAfter) ==
    /\ exactAfter = Live(exact, ExactTimestamp)
    /\ semanticAfter = Live(semantic, SemanticTimestamp)
    /\ \A i \in 1..Len(exactAfter) : ~OlderThanTtl(exactAfter[i].value.timestamp)
    /\ \A i \in 1..Len(semanticAfter) : ~OlderThanTtl(semanticAfter[i].value[3])
    /\ stAfter = [st EXCEPT !.ttl_expirations =
                     @ + (Len(exact) - Len(exactAfter))
                       + (Len(semantic) - Len(semanticAfter))]
    /\ IsNone(ttl_seconds) =>
          exactAfter = exact /\ semanticAfter = semantic /\ stAfter = st

C17_EagerSweep ==
    [][Step("remove_expired") =>
          Swept(exact_cache, semantic_cache, stats,
                exact_cache', semantic_cache', stats')]_vars

\* the sweep has just removed one fingerprint from both stores, counted twice,
\* and kept an entry whose age equals the TTL
C17_Witness ==
    /\ last.op = "remove_expired"
    /\ ops = 3
    /\ stats.ttl_expirations = 2
    /\ semantic_cache = <<>>
    /\ Len(exact_cache) = 1
    /\ last.at - exact_cache[1].value.timestamp = The(ttl_seconds)

(***************************************************************************)
(* C18: in a cache of max_size >= 1, clear empties both stores and leaves  *)
(* every counter as it was, and any get made on the cleared cache, with or *)
(* without embedding, is a miss.                                           *)
(***************************************************************************)
\* every get on the cache c returns absent
EveryGetMisses(c) ==
    \A rq \in Requests, e \in OptEmbeddings :
        IsAbsent(GetOp(c, rq[1], rq[2], e).result)

C18_Clear ==
    [][(max_size >= 1 /\ Step("clear")) =>
          /\ exact_cache' = <<>>
          /\ semantic_cache' = <<>>
          /\ stats' = stats
          /\ EveryGetMisses(Cache(exact_cache', semantic_cache', stats'))]_vars

(***************************************************************************)
(* C19: reset_stats sets the six counters to 0 and leaves both stores as   *)
(* they were (entries, payloads, timestamps, order), so every get made     *)
(* next has the result, and leaves the stores, it would have had without   *)
(* the reset.                                                              *)
(***************************************************************************)
\* a get on the cache after answers as the same get on the cache before
SameGets(before, after) ==
    \A rq \in Requests, e \in OptEmbeddings :
        LET old == GetOp(before, rq[1], rq[2], e)
            new == GetOp(after, rq[1], rq[2], e)
        IN /\ new.result = old.result
           /\ new.cache.exact_cache = old.cache.exact_cache
           /\ new.cache.semantic_cache = old.cache.semantic_cache

C19_ResetStats ==
    [][Step("reset_stats") =>
          /\ stats' = InitStats
          /\ exact_cache' = exact_cache
          /\ semantic_cache' = semantic_cache
          /\ SameGets(Self, Cache(exact_cache', semantic_cache', stats'))]_vars

\* a reset right after a set in the smallest cache, whose entry stays stored
C19_Witness ==
    /\ last.op = "reset_stats"
    /\ ops = 2
    /\ stats = InitStats
    /\ TotalEntries >= 1
    /\ max_size = 1

(***************************************************************************)
(* C20: get_stats changes neither stores nor counters; its report carries  *)
(* the six counters, total_hits = exact_hits + semantic_hits, the sizes of *)
(* the two stores and their sum, and hit_rate_percent, which is 0 when     *)
(* total_queries = 0 and otherwise total_hits / total_queries * 100        *)
(* rounded to two decimal places (the hundredth nearest to the quotient).  *)
(***************************************************************************)
Abs(n) == IF n < 0 THEN 0 - n ELSE n

\* rate, in hundredths of a percent, is exactly hits / queries * 100
ExactRate(rate, hits, queries) == rate * queries = 10000 * hits

\* rate, in hundredths of a percent, is the hundredth nearest to
\* hits / queries * 100
RoundedRate(rate, hits, queries) ==
    2 * Abs(rate * queries - 10000 * hits) <= queries

\* everything the report says of the cache (exact, semantic, st) but the rate
Snapshot(report, exact, semantic, st) ==
    /\ \A counter \in DOMAIN st : report[counter] = st[counter]
    /\ report.total_hits = st.exact_hits + st.semantic_hits
    /\ report.exact_cache_size = Len(exact)
    /\ report.semantic_cache_size = Len(semantic)
    /\ report.total_cache_size = Len(exact) + Len(semantic)
    /\ st.total_queries = 0 => report.hit_rate_percent = 0

ReadOnly ==
    /\ exact_cache' = exact_cache
    /\ semantic_cache' = semantic_cache
    /\ stats' = stats

Report(call) == The(call.result.value)

C20_GetStats ==
    [][Step("get_stats") =>
          /\ ReadOnly
          /\ Snapshot(Report(last'), exact_cache, semantic_cache, stats)
          /\ stats.total_queries > 0 =>
                RoundedRate(Report(last').hit_rate_percent,
                            Report(last').total_hits, stats.total_queries)]_vars

\* the claim as stated: the rate is the quotient itself
C20_Original ==
    [][Step("get_stats") =>
          /\ ReadOnly
          /\ Snapshot(Report(last'), exact_cache, semantic_cache, stats)
          /\ stats.total_queries > 0 =>
                ExactRate(Report(last').hit_rate_percent,
                          Report(last').total_hits, stats.total_queries)]_vars

\* two hits in three gets are reported as 66.67 percent
C20_Witness ==
    /\ last.op = "get_stats"
    /\ stats.total_queries = 3
    /\ Report(last).total_hits = 2
    /\ Report(last).hit_rate_percent = 6667
    /\ Report(last).total_cache_size = TotalEntries

(***************************************************************************)
(* ChunkCache: vocabulary                                                  *)
(***************************************************************************)
\* fingerprint of a recorded ChunkCache call
ChunkKeyOf(call) == GenerateEmbeddingHash(call.embedding, call.k)

\* the keys the first i calls of h set or hit, in the order of their last set
\* or hit
RECURSIVE ChunkTouchOrder(_, _)
ChunkTouchOrder(h, i) ==
    IF i = 0 THEN <<>>
    ELSE LET before == ChunkTouchOrder(h, i - 1)
             call == h[i]
         IN IF call.op = "set" \/ (call.op = "get" /\ IsHit(call.result))
            THEN Append(SelectSeq(before, LAMBDA x : x # ChunkKeyOf(call)),
                        ChunkKeyOf(call))
            ELSE before

\* the least recently set or hit of the keys, after the calls of h
LeastRecent(h, keys) ==
    Head(SelectSeq(ChunkTouchOrder(h, Len(h)), LAMBDA x : x \in keys))

\* the entries of before other than key are in after, as they were and in
\* the same order, but for the keys of gone
OthersKept(before, after, key, gone) ==
    SelectSeq(after, LAMBDA e : e.key # key)
        = SelectSeq(before, LAMBDA e : e.key # key /\ e.key \notin gone)

(***************************************************************************)
(* C21: a ChunkCache of max_size >= 0 never holds more than max_size       *)
(* entries. A set of a key that is stored replaces its value, makes it the *)
(* newest entry and evicts nothing. A set of a new key appends it; if that *)
(* makes more than max_size entries, exactly one entry goes, the least     *)
(* recently set or hit of them, and evictions grows by 1; otherwise        *)
(* nothing goes. The other entries and counters stay as they were.         *)
(***************************************************************************)
\* the set recorded last in h took the ChunkCache from c to d
ChunkSetEffect(c, d, h) ==
    LET call == h[Len(h)]
        key == ChunkKeyOf(call)
        held == Keys(c.cache) \cup {key}
        over == Cardinality(held) > c.max_size
        gone == IF over THEN {LeastRecent(h, held)} ELSE {}
    IN /\ Keys(d.cache) = held \ gone
       /\ Len(d.cache) = Cardinality(held \ gone)
       /\ OthersKept(c.cache, d.cache, key, gone)
       /\ key \notin gone =>
             d.cache[Len(d.cache)] = [key |-> key, value |-> <<call.chunks, call.at>>]
       /\ Contains(c.cache, key) => gone = {}
       /\ d.stats = [c.stats EXCEPT !.evictions = @ + Cardinality(gone)]

C21_ChunkCapacity ==
    [][/\ Len(chunk_cache'.cache) <= chunk_cache'.max_size
       /\ Step("set") => ChunkSetEffect(chunk_cache, chunk_cache', history')]_vars

\* a set of a third key in a ChunkCache of two entries, after a hit of the
\* older one: the entry that was not hit is gone
C21_Witness ==
    /\ ops = MaxOps + 2
    /\ last.op = "set"
    /\ history[1].op = "set"
    /\ history[3].op = "get" /\ IsHit(history[3].result)
    /\ ChunkKeyOf(history[3]) = ChunkKeyOf(history[1])
    /\ chunk_cache.max_size = 2
    /\ chunk_cache.stats.evictions = 1
    /\ KeySeq(chunk_cache.cache) = <<ChunkKeyOf(history[1]), ChunkKeyOf(history[4])>>

(***************************************************************************)
(* C22: with ttl_seconds configured (not None), a ChunkCache.get of a      *)
(* stored key whose entry is older than ttl_seconds removes the entry,     *)
(* adds 1 to expirations and to misses and returns absent; a get of any    *)
(* other stored key returns its chunk list, makes the entry the newest and *)
(* adds 1 to hits; a get of a key not stored adds 1 to misses and returns  *)
(* absent. Every get adds exactly 1 to hits + misses and no other call     *)
(* changes them.                                                           *)
(***************************************************************************)
\* age strictly greater than the configured TTL c.ttl_seconds
ChunkOlderThanTtl(c, timestamp) ==
    ~IsNone(c.ttl_seconds) /\ (now - timestamp) > The(c.ttl_seconds)

\* the get recorded as call took the ChunkCache from c to d
ChunkGetEffect(c, d, call) ==
    LET key == ChunkKeyOf(call)
    IN IF ~Contains(c.cache, key)
       THEN /\ IsAbsent(call.result)
            /\ d = [c EXCEPT !.stats = Bump(@, "misses")]
       ELSE IF ChunkOlderThanTtl(c, Lookup(c.cache, key)[2])
       THEN /\ IsAbsent(call.result)
            /\ d = [c EXCEPT !.cache = Del(@, key),
                             !.stats = Bump(Bump(@, "misses"), "expirations")]
       ELSE /\ call.result = Returned(Some(Lookup(c.cache, key)[1]))
            /\ d = [c EXCEPT !.cache = MoveToEnd(@, key),
                             !.stats = Bump(@, "hits")]

GetsCounted(st) == st.hits + st.misses

ChunkGetAsStated ==
    /\ Step("get") =>
          /\ ChunkGetEffect(chunk_cache, chunk_cache', last')
          /\ GetsCounted(chunk_cache'.stats) = GetsCounted(chunk_cache.stats) + 1
    /\ ~Step("get") =>
          GetsCounted(chunk_cache'.stats) = GetsCounted(chunk_cache.stats)

C22_ChunkLazyExpiry == [][ChunkGetAsStated]_vars

(***************************************************************************)
(* C23: the stores a set leaves are those it wrote, less the victims of    *)
(* the eviction pass: while exact size + semantic size > max_size, the     *)
(* sizes being compared anew before every step, the oldest entry of the    *)
(* semantic store goes if that store holds strictly more entries, and the  *)
(* oldest entry of the exact store otherwise; each step is one eviction.   *)
(***************************************************************************)
\* the pass as stated, from the stores exact and semantic after evicted steps
RECURSIVE PassAsStated(_, _, _)
PassAsStated(exact, semantic, evicted) ==
    IF Len(exact) + Len(semantic) <= max_size
    THEN [exact_cache |-> exact, semantic_cache |-> semantic, evicted |-> evicted]
    ELSE IF Len(semantic) > Len(exact)
         THEN PassAsStated(exact, Tail(semantic), evicted + 1)
         ELSE PassAsStated(Tail(exact), semantic, evicted + 1)

\* the stores the recorded set wrote under the key h, before the pass
WrittenExact(exact, call, h) ==
    WrittenLast(exact, h,
                [data |-> call.data, timestamp |-> call.at, query |-> call.query])

WrittenSemantic(semantic, call, h) ==
    IF enable_semantic_cache /\ ~IsNone(call.embedding)
    THEN WrittenLast(semantic, h,
                     <<The(call.embedding), call.data, call.at, call.query>>)
    ELSE semantic

VictimsChosen(exact, semantic, exactAfter, semanticAfter, evicted) ==
    PassAsStated(exact, semantic, 0)
        = [exact_cache |-> exactAfter, semantic_cache |-> semanticAfter,
           evicted |-> evicted]

C23_VictimSelection ==
    [][Step("set") =>
          VictimsChosen(WrittenExact(exact_cache, last', CalledHash),
                        WrittenSemantic(semantic_cache, last', CalledHash),
                        exact_cache', semantic_cache',
                        stats'.evictions - stats.evictions)]_vars

\* the second set of a cache of two entries wrote both stores: two entries
\* each, the exact store lost its oldest first (equal sizes), then the
\* semantic store, by then the larger, lost its oldest
C23_Witness ==
    /\ last.op = "set"
    /\ ops = 2
    /\ max_size = 2
    /\ stats.evictions = 2
    /\ KeySeq(exact_cache) = <<HashOf(last)>>
    /\ KeySeq(semantic_cache) = <<HashOf(last)>>

(***************************************************************************)
(* C24: when get returns a semantic hit, the payload and the similarity    *)
(* returned are those of a semantic entry that is not older than the TTL   *)
(* and whose similarity to the embedding passed is the greatest among the  *)
(* semantic entries not older than the TTL.                                *)
(***************************************************************************)
\* the response is the hit made from the entry e
AnswersWith(response, e, similarity) ==
    response = CreateCacheResponse(e.value[2], "semantic", Some(similarity))

\* response is made from an entry of live nearest to query_embedding
AnswersWithBest(response, live, query_embedding) ==
    \E i \in 1..Len(live) :
        /\ AnswersWith(response, live[i],
                       CosineSimilarity(query_embedding, live[i].value[1]))
        /\ \A j \in 1..Len(live) :
              CosineSimilarity(query_embedding, live[j].value[1])
                  <= CosineSimilarity(query_embedding, live[i].value[1])

C24_BestMatch ==
    [][(Step("get") /\ ReturnedHitOfType("semantic")) =>
          AnswersWithBest(Response, LiveSemantic, The(last'.embedding))]_vars

\* a semantic hit of similarity 1 on the second of two entries, the first of
\* which also reaches the threshold
C24_Witness ==
    /\ last.op = "get"
    /\ HitOfType(last, "semantic")
    /\ similarity_threshold = DefaultThreshold
    /\ The(last.result.value)["_cache_similarity"] = SimScale
    /\ The(last.result.value)["answer"] = 2
    /\ Len(semantic_cache) = 2
    /\ semantic_cache[1].value[2] = [answer |-> 1]
    /\ CosineSimilarity(The(last.embedding), semantic_cache[1].value[1])
          \in DefaultThreshold..(SimScale - 1)

(***************************************************************************)
(* C25 (as amended): when several semantic entries not older than the TTL  *)
(* share the greatest similarity to the embedding passed, a semantic hit   *)
(* is made from the one that comes first in the store, which is the least  *)
(* recently set or hit of them; it need not be the one inserted earliest.  *)
(***************************************************************************)
\* the entries of live nearest to query_embedding, in the order of live
Nearest(live, query_embedding) ==
    SelectSeq(live,
              LAMBDA e : \A j \in 1..Len(live) :
                  CosineSimilarity(query_embedding, live[j].value[1])
                      <= CosineSimilarity(query_embedding, e.value[1]))

\* response is made from the first of the entries of nearest
AnswersWithFirst(response, nearest, query_embedding) ==
    /\ nearest # <<>>
    /\ AnswersWith(response, nearest[1],
                   CosineSimilarity(query_embedding, nearest[1].value[1]))

\* response is made from the entry of nearest that was set first (a payload
\* carries the number of the set that stored it)
AnswersWithEarliest(response, nearest, query_embedding) ==
    \E i \in 1..Len(nearest) :
        /\ AnswersWith(response, nearest[i],
                       CosineSimilarity(query_embedding, nearest[i].value[1]))
        /\ \A j \in 1..Len(nearest) :
              nearest[i].value[2].answer <= nearest[j].value[2].answer

C25_TieBreak ==
    [][(Step("get") /\ ReturnedHitOfType("semantic")) =>
          AnswersWithFirst(Response, Nearest(LiveSemantic, The(last'.embedding)),
                           The(last'.embedding))]_vars

\* the claim as stated: the earliest inserted of the nearest entries
C25_Original ==
    [][(Step("get") /\ ReturnedHitOfType("semantic")) =>
          AnswersWithEarliest(Response,
                              Nearest(LiveSemantic, The(last'.embedding)),
                              The(last'.embedding))]_vars

\* two entries of equal similarity: a first hit took and promoted the older,
\* the hit just made took the newer
C25_Witness ==
    /\ ops = 4
    /\ HitOfType(history[3], "semantic")
    /\ The(history[3].result.value)["answer"] = 1
    /\ HitOfType(last, "semantic")
    /\ The(last.result.value)["answer"] = 2
    /\ The(last.result.value)["_cache_similarity"]
          = The(history[3].result.value)["_cache_similarity"]
    /\ KeySeq(semantic_cache) = <<HashOf(history[1]), HashOf(history[2])>>

(***************************************************************************)
(* C26: get removes no semantic entry, expired or not, and counts no       *)
(* expiration for one: its ttl_expirations grows by 1 when it finds the    *)
(* exact entry of its key older than the TTL and by 0 otherwise. A         *)
(* semantic entry older than the TTL leaves the store, or is replaced,     *)
(* only in a remove_expired, a clear or a set, and until then counts in    *)
(* the total that max_size bounds: a set evicts the excess of all entries  *)
(* written, expired ones included, over max_size.                          *)
(***************************************************************************)
\* the entries of d, in any order
Entries(d) == {d[i] : i \in 1..Len(d)}

\* the entries of semantic older than the TTL
ExpiredEntries(semantic) ==
    {e \in Entries(semantic) : OlderThanTtl(e.value[3])}

\* a get left the semantic entries in place and counted expired expirations
ScanKeeps(semantic, semanticAfter, st, stAfter, expired) ==
    /\ Entries(semanticAfter) = Entries(semantic)
    /\ Len(semanticAfter) = Len(semantic)
    /\ stAfter.ttl_expirations = st.ttl_expirations + expired

\* a set that wrote the stores to written entries in all, those older than
\* the TTL included, evicted the excess over max_size
EvictsExcess(written, evicted) ==
    evicted = (IF written > max_size THEN written - max_size ELSE 0)

C26_ScanSkipsExpired ==
    [][/\ Step("get") =>
             ScanKeeps(semantic_cache, semantic_cache', stats, stats',
                       IF FoundExpiredExact THEN 1 ELSE 0)
       /\ ~(ExpiredEntries(semantic_cache) \subseteq Entries(semantic_cache')) =>
             Step("remove_expired") \/ Step("clear") \/ Step("set")
       /\ Step("set") =>
             EvictsExcess(Len(WrittenExact(exact_cache, last', CalledHash))
                            + Len(WrittenSemantic(semantic_cache, last', CalledHash)),
                          stats'.evictions - stats.evictions)]_vars

\* a get with an embedding found the exact entry of its key expired and
\* removed it; the semantic entry of the key, as old, is still stored, the
\* call is a miss and one expiration is counted
C26_Witness ==
    /\ last.op = "get"
    /\ ~IsNone(last.embedding)
    /\ IsAbsent(last.result)
    /\ stats.ttl_expirations = 1
    /\ ~Contains(exact_cache, HashOf(last))
    /\ Contains(semantic_cache, HashOf(last))
    /\ OlderThanTtl(Lookup(semantic_cache, HashOf(last))[3])

(***************************************************************************)
(* C27 (as amended): no store ever holds two entries of one fingerprint.   *)
(* A set writes the exact store always and the semantic store when it      *)
(* carries an embedding and semantic caching is on. Where the fingerprint  *)
(* is present in a store the set writes, the write adds no entry: it       *)
(* replaces the payload, restamps the entry with the current time and      *)
(* makes it the newest; the eviction pass that ends the set may then take  *)
(* oldest entries from the store, which shrinks it, and takes the entry    *)
(* just rewritten when it is the only one. Where the fingerprint is        *)
(* present in the semantic store and the set does not write that store,    *)
(* the entry keeps its payload, timestamp and place.                       *)
(***************************************************************************)
UniqueKeys(d) == Cardinality(Keys(d)) = Len(d)

\* after is store rewritten under the key h with the value v, less at most
\* evicted oldest entries
Overwritten(store, after, h, v, evicted) ==
    /\ Len(WrittenLast(store, h, v)) = Len(store)
    /\ \E n \in 0..evicted : after = DropOldest(WrittenLast(store, h, v), n)

\* after is store less at most evicted oldest entries
OnlyEvicted(store, after, evicted) ==
    \E n \in 0..evicted : after = DropOldest(store, n)

ExactValue(call) ==
    [data |-> call.data, timestamp |-> call.at, query |-> call.query]

SemanticValue(call) ==
    <<The(call.embedding), call.data, call.at, call.query>>

OverwriteAsAmended(call, h, evicted) ==
    /\ Contains(exact_cache, h) =>
          Overwritten(exact_cache, exact_cache', h, ExactValue(call), evicted)
    /\ (Contains(semantic_cache, h) /\ SemanticAsked) =>
          Overwritten(semantic_cache, semantic_cache', h, SemanticValue(call),
                      evicted)
    /\ (Contains(semantic_cache, h) /\ ~SemanticAsked) =>
          OnlyEvicted(semantic_cache, semantic_cache', evicted)

Replaced(store, after, h, data, at, payload(_), timestamp(_)) ==
    /\ Len(after) = Len(store)
    /\ after # <<>>
    /\ after[Len(after)].key = h
    /\ payload(after[Len(after)]) = data
    /\ timestamp(after[Len(after)]) = at

ExactPayload(e) == e.value.data

SemanticPayload(e) == e.value[2]

StoredUnder(h, query, k) == h = GenerateQueryHash(query, k)

\* the entries a response of payload data can come from were stored under k
SourcesStoredUnder(exact, semantic, data, k) ==
    /\ \A i \in 1..Len(exact) :
          exact[i].value.data = data =>
              StoredUnder(exact[i].key, exact[i].value.query, k)
    /\ \A i \in 1..Len(semantic) :
          semantic[i].value[2] = data =>
              StoredUnder(semantic[i].key, semantic[i].value[4], k)

C28_SemanticKSensitivity ==
    [][(Step("get") /\ IsHit(last'.result)) =>
          SourcesStoredUnder(exact_cache, semantic_cache,
                             WithoutProvenance(Response), last'.k)]_vars

(***************************************************************************)
(* C29: two (query, k) pairs have the same key before hashing, and the     *)
(* same fingerprint, exactly when their queries are equal after lower()    *)
(* and strip() and their k are equal, whether or not the text holds the    *)
(* separator "|k=": the entry a set stored is the one a get of (query, k)  *)
(* looks up exactly for those pairs.                                       *)
(***************************************************************************)
Normalized(query) == Strip(Lower(query))

\* the pairs whose key is key are those of the normalized text and count of
\* the pair (query, k)
KeyOfExactly(key, query, k) ==
    \A other \in KeyQueries, otherK \in KeyCounts :
        (CacheKey(other, otherK) = key)
            <=> (Normalized(other) = Normalized(query) /\ otherK = k)

\* the same of the fingerprint
HashOfExactly(hash, query, k) ==
    \A other \in KeyQueries, otherK \in KeyCounts :
        (GenerateQueryHash(other, otherK) = hash)
            <=> (Normalized(other) = Normalized(query) /\ otherK = k)

C29_Fingerprint ==
    last.op = "set" =>
        /\ KeyOfExactly(CacheKey(last.query, last.k), last.query, last.k)
        /\ Len(exact_cache) = 1
        /\ HashOfExactly(exact_cache[1].key, last.query, last.k)

\* the text stored holds the separator followed by the digit, and its count
\* is another
C29_Witness ==
    /\ last.op = "set"
    /\ last.query = <<"|", "k", "=", "1">>
    /\ last.k = 2
    /\ exact_cache[1].key = Sha256(<<"|", "k", "=", "1", "|", "k", "=", "2">>)

(***************************************************************************)
(* C30: operations of two workers on one QueryCache exclude each other:    *)
(* while a get is in progress no other call changes the stores or the      *)
(* counters, so the scan of the get sees the semantic store as it was when *)
(* the scan began, and no get raises because an entry it is about to read, *)
(* delete or promote was removed meanwhile.                                *)
(***************************************************************************)
\* a call made by the other worker while a get is in progress
OtherWorkerCall ==
    /\ inflight.pc # "idle"
    /\ inflight'.pc = inflight.pc
    /\ ops' = ops + 1

GetsExcludeOthers ==
    /\ OtherWorkerCall =>
          /\ exact_cache' = exact_cache
          /\ semantic_cache' = semantic_cache
          /\ stats' = stats
    /\ (inflight.pc = "scan" /\ inflight.i <= Len(inflight.items)) =>
          semantic_cache = inflight.items
    /\ Step("get") => ~IsRaise(last'.result)

C30_MutualExclusion == [][GetsExcludeOthers]_vars

(***************************************************************************)
(* C31: with two workers on one QueryCache, no call of one worker finds    *)
(* the two stores holding more than max_size entries because the set of    *)
(* the other worker has inserted and not yet evicted.                      *)
(***************************************************************************)
\* the other worker makes a call while a set is in progress
CallDuringSet ==
    /\ setting.pc # "idle"
    /\ setting' = setting
    /\ ops' = ops + 1

NoCallSeesExcess == CallDuringSet => TotalEntries <= max_size

C31_NoTransientExcess == [][NoCallSeesExcess]_vars

(***************************************************************************)
(* C32: the calls of two workers on one QueryCache are serializable: when  *)
(* a set that ran interleaved with calls of the other worker ends, the     *)
(* stores (entries and their order) and the counters are those that the    *)
(* same calls leave when made one after the other in some order, and the   *)
(* set does not fail; so total_queries is the number of gets made and no   *)
(* more entries are evicted than in that sequential order.                 *)
(***************************************************************************)
\* the object after call is made on the object c with no other call running
AfterCall(c, call) ==
    IF call.op = "set"
    THEN SetOp(c, call.query, call.data, call.k, call.embedding)
    ELSE IF call.op = "get"
    THEN GetOp(c, call.query, call.k, call.embedding).cache
    ELSE RemoveExpiredOp(c)

RECURSIVE AfterCalls(_, _)
AfterCalls(c, calls) ==
    IF calls = <<>> THEN c
    ELSE AfterCalls(AfterCall(c, Head(calls)), Tail(calls))

\* the objects that mine and the calls others, made in their order, leave
\* when mine is made before, between or after them
SerialOutcomes(before, mine, others) ==
    {AfterCalls(AfterCall(AfterCalls(before, SubSeq(others, 1, i)), mine),
                SubSeq(others, i + 1, Len(others))) : i \in 0..Len(others)}

\* the set in progress ends
SetEnds == setting.pc # "idle" /\ setting'.pc = "idle"

GetsMade(h) == Len(SelectSeq(h, LAMBDA call : call.op = "get"))

SetEndsAsSerial(after, h) ==
    /\ ~IsRaise(h[Len(h)].result)
    /\ after \in SerialOutcomes(setting.before, h[Len(h)],
                                SubSeq(h, setting.since + 1, Len(h) - 1))
    /\ after.stats.total_queries = GetsMade(h)

Serializable ==
    SetEnds => SetEndsAsSerial(Cache(exact_cache', semantic_cache', stats'),
                               history')

C32_Serializable == [][Serializable]_vars

(***************************************************************************)
(* C33: entries enter a store through set alone, and then as the entry the *)
(* set wrote; every other call leaves each stored entry as it is (key,     *)
(* payload, embedding, timestamp) or removes it, so no store grows outside *)
(* set. get_stats, reset_stats and the passing of time leave the stores    *)
(* alone; a get removes nothing but the expired exact entry of its own     *)
(* fingerprint and keeps every semantic entry; remove_expired removes      *)
(* expired entries alone; a set removes entries only by overwriting its    *)
(* own fingerprint or by counted evictions.                                *)
(***************************************************************************)
\* the entries of before that after no longer holds
Gone(before, after) == Entries(before) \ Entries(after)

\* the entries of before that after no longer holds, under another key than h
GoneOthers(before, after, h) == {e \in Gone(before, after) : e.key # h}

NothingEnters(before, after) ==
    /\ Entries(after) \subseteq Entries(before)
    /\ Len(after) <= Len(before)

Lifecycle(call, exact, semantic, st, exactAfter, semanticAfter, stAfter) ==
    /\ call.op # "set" =>
          /\ NothingEnters(exact, exactAfter)
          /\ NothingEnters(semantic, semanticAfter)
    /\ call.op \in {"get_stats", "reset_stats", "tick"} =>
          /\ exactAfter = exact
          /\ semanticAfter = semantic
    /\ call.op = "get" =>
          /\ Entries(semanticAfter) = Entries(semantic)
          /\ \A e \in Gone(exact, exactAfter) :
                /\ e.key = HashOf(call)
                /\ OlderThanTtl(e.value.timestamp)
    /\ call.op = "remove_expired" =>
          /\ \A e \in Gone(exact, exactAfter) : OlderThanTtl(e.value.timestamp)
          /\ \A e \in Gone(semantic, semanticAfter) : OlderThanTtl(e.value[3])
    /\ call.op = "set" =>
          /\ Entries(exactAfter) \subseteq
                Entries(exact) \cup {[key |-> HashOf(call), value |-> ExactValue(call)]}
          /\ IF IsNone(call.embedding)
             THEN Entries(semanticAfter) \subseteq Entries(semantic)
             ELSE Entries(semanticAfter) \subseteq
                     Entries(semantic)
                     \cup {[key |-> HashOf(call), value |-> SemanticValue(call)]}
          /\ Cardinality(GoneOthers(exact, exactAfter, HashOf(call)))
             + Cardinality(GoneOthers(semantic, semanticAfter, HashOf(call)))
                <= stAfter.evictions - st.evictions

LifecycleStep ==
    Lifecycle(IF ops' = ops + 1 THEN last' ELSE [op |-> "tick"],
              exact_cache, semantic_cache, stats,
              exact_cache', semantic_cache', stats')

C33_Lifecycle == [][LifecycleStep]_vars

\* a get has removed the expired exact entry of its fingerprint and kept the
\* semantic entry of the same fingerprint
C33_Witness ==
    /\ last.op = "get"
    /\ IsAbsent(last.result)
    /\ stats.ttl_expirations = 1
    /\ ~Contains(exact_cache, HashOf(last))
    /\ Contains(semantic_cache, HashOf(last))

(***************************************************************************)
(* C34: every set runs to completion, for every max_size, negative ones    *)
(* included: the loop of _ensure_cache_size makes at most (exact size +    *)
(* semantic size - max_size) turns, the sizes being those it read on       *)
(* entry, also where the store it chose is empty, and the set in progress  *)
(* always ends.                                                            *)
(***************************************************************************)
InEvictionLoop == setting.pc \in {"while", "choose", "pop", "decrement"}

\* the number of entries that _ensure_cache_size read on entry
EntriesOnEntry == setting.total_entries + setting.turns

TurnsBounded ==
    InEvictionLoop =>
        setting.turns <= IF EntriesOnEntry > max_size
                         THEN EntriesOnEntry - max_size ELSE 0

SetRunsToCompletion == (setting.pc # "idle") ~> (setting.pc = "idle")

C34_SetTerminates == []TurnsBounded /\ SetRunsToCompletion

\* the loop has made a turn on an empty store: more turns than evictions
C34_Witness ==
    /\ setting.pc = "while"
    /\ setting.turns > stats.evictions
    /\ max_size < 0
    /\ exact_cache = <<>> /\ semantic_cache = <<>>

(***************************************************************************)
(* C35: in a cache of max_size >= 0 a set removes, by eviction, exactly    *)
(* the excess over max_size of the entries held right after its insertion  *)
(* (nothing when they fit), and adds the number of entries it removed to   *)
(* the evictions counter; no other call adds to that counter, whatever it  *)
(* removes by expiry or clear.                                             *)
(***************************************************************************)
\* the entries of the two stores right after the insertion of the set call
EntriesAfterInsertion(call, exact, semantic) ==
    Len(exact) + (IF Contains(exact, HashOf(call)) THEN 0 ELSE 1)
    + Len(semantic)
    + (IF /\ enable_semantic_cache
          /\ ~IsNone(call.embedding)
          /\ ~Contains(semantic, HashOf(call))
       THEN 1 ELSE 0)

Excess(n) == IF n > max_size THEN n - max_size ELSE 0

EvictsExactly(call, exact, semantic, st, exactAfter, semanticAfter, stAfter) ==
    /\ call.op = "set" =>
          LET inserted == EntriesAfterInsertion(call, exact, semantic)
              removed == inserted - (Len(exactAfter) + Len(semanticAfter))
          IN /\ removed = Excess(inserted)
             /\ stAfter.evictions - st.evictions = removed
    /\ call.op \notin {"set", "reset_stats"} => stAfter.evictions = st.evictions
    /\ call.op = "reset_stats" => stAfter.evictions <= st.evictions

EvictionStep ==
    EvictsExactly(IF ops' = ops + 1 THEN last' ELSE [op |-> "tick"],
                  exact_cache, semantic_cache, stats,
                  exact_cache', semantic_cache', stats')

C35_MinimalEviction == [][EvictionStep]_vars

\* a set has just evicted and left a full cache, two evictions counted in all
C35_Witness ==
    /\ last.op = "set"
    /\ max_size >= 1
    /\ stats.evictions = 2
    /\ TotalEntries = max_size
    /\ Len(semantic_cache) = 1

(***************************************************************************)
(* C36: a hit promotes in its own store only. A get answered as an exact   *)
(* hit moves its entry to the end of the exact store and leaves the        *)
(* semantic store as it was, entries and order; a get answered as a        *)
(* semantic hit moves the entry it answered with to the end of the         *)
(* semantic store and leaves the order of the exact store as it was (the   *)
(* exact store loses at most the expired entry of the fingerprint called). *)
(* So the two copies of one fingerprint can stand at different positions   *)
(* and one can be evicted while the other stays.                           *)
(***************************************************************************)
\* after is before with the entry of some key moved to its end
PromotedOne(before, after) ==
    \E key \in Keys(before) : after = MoveToEnd(before, key)

PromotesOwnStore(call, exact, semantic, exactAfter, semanticAfter) ==
    /\ HitOfType(call, "exact") =>
          /\ semanticAfter = semantic
          /\ exactAfter = MoveToEnd(exact, HashOf(call))
    /\ HitOfType(call, "semantic") =>
          /\ \/ exactAfter = exact
             \/ /\ Contains(exact, HashOf(call))
                /\ exactAfter = Del(exact, HashOf(call))
          /\ PromotedOne(semantic, semanticAfter)
          /\ The(call.result.value).answer
                = semanticAfter[Len(semanticAfter)].value[2].answer

PromotionStep ==
    (ops' = ops + 1) =>
        PromotesOwnStore(last', exact_cache, semantic_cache,
                         exact_cache', semantic_cache')

C36_OwnStorePromotion == [][PromotionStep]_vars

\* a semantic hit has moved an entry behind a newer one in the semantic
\* store, while the exact copy of that entry was evicted earlier and the
\* exact store holds the newer fingerprint alone
C36_Witness ==
    /\ HitOfType(last, "semantic")
    /\ Len(history) = 3
    /\ history[1].op = "set" /\ history[2].op = "set"
    /\ KeySeq(semantic_cache) = <<HashOf(history[2]), HashOf(history[1])>>
    /\ KeySeq(exact_cache) = <<HashOf(history[2])>>

(***************************************************************************)
(* C37 (as amended): whenever one fingerprint is present in both stores,   *)
(* the exact entry is never the older of the two: either the two entries   *)
(* carry the same payload and the same timestamp (one set wrote both), or  *)
(* the exact entry was written by a later set, which passed no embedding   *)
(* or found semantic caching disabled: its payload is that of the later    *)
(* set and its timestamp is not earlier than that of the semantic entry.   *)
(* The two always carry the same source query up to case and outer blanks. *)
(***************************************************************************)
\* the fingerprints present in both stores
InBothStores == Keys(exact_cache) \cap Keys(semantic_cache)

\* the exact entry x and the semantic entry s were written by one set
SameWrite(x, s) == x.data = s[2] /\ x.timestamp = s[3] /\ x.query = s[4]

\* the exact entry x was written by a later set than the semantic entry s;
\* a payload carries the number of the set that passed it
LaterWrite(x, s) ==
    /\ x.data.answer > s[2].answer
    /\ x.timestamp >= s[3]
    /\ Normalized(x.query) = Normalized(s[4])

C37_DualStore ==
    \A key \in InBothStores :
        \/ SameWrite(Lookup(exact_cache, key), Lookup(semantic_cache, key))
        \/ LaterWrite(Lookup(exact_cache, key), Lookup(semantic_cache, key))

\* C37 as stated: the two entries of one fingerprint carry the same payload
\* and the same timestamp
C37_Original ==
    \A key \in InBothStores :
        /\ Lookup(exact_cache, key).data = Lookup(semantic_cache, key)[2]
        /\ Lookup(exact_cache, key).timestamp = Lookup(semantic_cache, key)[3]

\* a set without embedding has rewritten the exact entry of a fingerprint
\* whose semantic entry an earlier set wrote at an earlier time
C37_Witness ==
    /\ last.op = "set"
    /\ IsNone(last.embedding)
    /\ HashOf(last) \in InBothStores
    /\ Lookup(exact_cache, HashOf(last)).data = last.data
    /\ Lookup(semantic_cache, HashOf(last))[2] # last.data
    /\ Lookup(semantic_cache, HashOf(last))[3] < last.at

(***************************************************************************)
(* C38: the exact match takes precedence. Whenever the exact store holds   *)
(* an unexpired entry for (q, k), get(q, k, embedding) returns that entry  *)
(* as an 'exact' hit whatever embedding is passed, and the semantic store  *)
(* is not scanned: the call does not fail, counts no semantic hit and      *)
(* leaves the semantic store as it was. A get ends as a semantic hit or    *)
(* with a dimension-mismatch failure only where the exact entry of (q, k)  *)
(* was absent or expired.                                                  *)
(***************************************************************************)
AnswersExact(call, entry, semantic, st, semanticAfter, stAfter) ==
    /\ call.result = ExactHit(entry.data)
    /\ semanticAfter = semantic
    /\ stAfter = Bump(Bump(st, "total_queries"), "exact_hits")

Scanned(call) == HitOfType(call, "semantic") \/ IsRaise(call.result)

ExactFirst ==
    /\ FoundLiveExact =>
          AnswersExact(last', Lookup(exact_cache, CalledHash),
                       semantic_cache, stats, semantic_cache', stats')
    /\ (Step("get") /\ Scanned(last')) =>
          \/ ~Contains(exact_cache, CalledHash)
          \/ OlderThanTtl(Lookup(exact_cache, CalledHash).timestamp)

C38_ExactPrecedence == [][ExactFirst]_vars

\* an exact hit was returned to a get that passed an embedding of another
\* dimension than that of a stored semantic entry
C38_Witness ==
    /\ HitOfType(last, "exact")
    /\ ~IsNone(last.embedding)
    /\ \E i \in 1..Len(semantic_cache) :
          Len(semantic_cache[i].value[1]) # Len(The(last.embedding))

(***************************************************************************)
(* C39: ChunkCache.get(E2, k2) returns the list that an earlier            *)
(* set(E1, k1, chunks) stored and the cache still holds if and only if     *)
(* k1 = k2 and E1 and E2 agree on their first 100 components; it returns   *)
(* nothing where no entry held was stored so. Components beyond the 100th  *)
(* play no part: a set whose embedding agrees with that of a stored entry  *)
(* on the first 100 components, with the same k, replaces that entry.      *)
(***************************************************************************)
\* e1 and e2 have the same components at the positions 1..HashPrefix
AgreeOnPrefix(e1, e2) ==
    \A i \in 1..HashPrefix :
        /\ (i <= Len(e1)) <=> (i <= Len(e2))
        /\ (i <= Len(e1)) => e1[i] = e2[i]

SameChunkKey(c1, c2) == c1.k = c2.k /\ AgreeOnPrefix(c1.embedding, c2.embedding)

\* the set call that stored the entry e: a chunk list carries the number of
\* the call that passed it
Writer(h, e) == h[e.value[1][1].chunk]

ChunkKeyEquality(call, d, dAfter, h) ==
    /\ call.op = "get" =>
          /\ \A e \in Entries(d) :
                (call.result = Returned(Some(e.value[1])))
                    <=> SameChunkKey(Writer(h, e), call)
          /\ (\A e \in Entries(d) : ~SameChunkKey(Writer(h, e), call))
                => call.result = Returned(None)
    /\ call.op = "set" =>
          /\ \A e \in Entries(d) :
                SameChunkKey(Writer(h, e), call) => e \notin Entries(dAfter)
          /\ dAfter # <<>> =>
                dAfter[Len(dAfter)].value[1] = call.chunks

ChunkKeyStep ==
    (ops' = ops + 1) =>
        ChunkKeyEquality(last', chunk_cache.cache, chunk_cache'.cache, history')

C39_ChunkKey == [][ChunkKeyStep]_vars

\* a get has returned the list stored by a set whose embedding differs from
\* its own, beyond the first 100 components only
C39_Witness ==
    /\ last.op = "get"
    /\ IsHit(last.result)
    /\ \E i \in 1..Len(history) :
          /\ history[i].op = "set"
          /\ history[i].chunks = The(last.result.value)
          /\ history[i].embedding # last.embedding

====
